---- MODULE Spec2Model ----
(***************************************************************************)
(* A model of mtpy/usgs/ZenTools.py: the Z3D raw-channel decoder (Zen3D)   *)
(* and the merged cache container codec (ZenCache).                        *)
(*                                                                         *)
(* Strings and files are sequences of bytes (0..255).  Python sequences    *)
(* are 0-based, TLA+ sequences are 1-based: a Python offset i is the       *)
(* element i+1 of the TLA+ sequence, and every offset kept in the state    *)
(* is the Python (0-based) one.                                            *)
(***************************************************************************)
EXTENDS Integers, Sequences, FiniteSets, TLC

\* ------------------------------------------------------------------ bounds

\* most channels merged into one cache file
MaxChn == 2
\* most rows (samples per channel) of an aligned matrix
MaxRows == 2
\* most cells (rows x channels) of an aligned matrix
MaxCells == 4

\* ------------------------------------------------------------------ text

Numerals == <<"0", "1", "2", "3", "4", "5", "6", "7", "8", "9">>
Capitals ==
  <<"A", "B", "C", "D", "E", "F", "G", "H", "I", "J", "K", "L", "M",
    "N", "O", "P", "Q", "R", "S", "T", "U", "V", "W", "X", "Y", "Z">>
Smalls ==
  <<"a", "b", "c", "d", "e", "f", "g", "h", "i", "j", "k", "l", "m",
    "n", "o", "p", "q", "r", "s", "t", "u", "v", "w", "x", "y", "z">>

IndexOf(tbl, c) == CHOOSE i \in 1..Len(tbl) : tbl[i] = c

\* the byte of a character
Ord(c) ==
  CASE c = "\n" -> 10
    [] c = " " -> 32
    [] c = "," -> 44
    [] c = "-" -> 45
    [] c = "." -> 46
    [] c = ":" -> 58
    [] \E i \in 1..10 : Numerals[i] = c -> 47 + IndexOf(Numerals, c)
    [] \E i \in 1..26 : Capitals[i] = c -> 64 + IndexOf(Capitals, c)
    [] \E i \in 1..26 : Smalls[i] = c -> 96 + IndexOf(Smalls, c)

\* the bytes of a text given character by character
Enc(chars) == [i \in 1..Len(chars) |-> Ord(chars[i])]

NL == 10
COMMA == 44

\* str.upper() on bytes
Upper(s) == [i \in 1..Len(s) |-> IF s[i] >= 97 /\ s[i] <= 122 THEN s[i] - 32 ELSE s[i]]

\* '{0}'.format(n) for an integer n >= 0
RECURSIVE Digits(_)
Digits(n) == IF n < 10 THEN <<48 + n>> ELSE Append(Digits(n \div 10), 48 + (n % 10))

\* ''.join(parts)
RECURSIVE Join(_)
Join(parts) == IF parts = <<>> THEN <<>> ELSE Head(parts) \o Join(Tail(parts))

\* s * n
RECURSIVE Repeat(_, _)
Repeat(s, n) == IF n <= 0 THEN <<>> ELSE s \o Repeat(s, n - 1)

\* s[i:j]: a negative offset counts from the end, and the slice is clipped to
\* the string
Slice(s, i, j) ==
  LET norm(k) == IF k < 0 THEN (IF k + Len(s) < 0 THEN 0 ELSE k + Len(s))
                 ELSE IF k > Len(s) THEN Len(s) ELSE k
  IN  IF norm(i) >= norm(j) THEN <<>> ELSE SubSeq(s, norm(i) + 1, norm(j))

\* s.find(c): the 0-based offset of the first byte c, or -1
FindByte(s, c) ==
  IF \E i \in 1..Len(s) : s[i] = c
  THEN (CHOOSE i \in 1..Len(s) : s[i] = c /\ \A j \in 1..(i - 1) : s[j] # c) - 1
  ELSE -1

\* s.split(c): the pieces of s between the bytes c
Split(s, c) ==
  LET P == {i \in 1..Len(s) : s[i] = c}
      n == Cardinality(P)
      ord == [p \in P |-> Cardinality({x \in P : x < p})]
      \* the k-th separator, with 0 before the string and Len(s)+1 after it
      at == [k \in 0..(n + 1) |->
               IF k = 0 THEN 0
               ELSE IF k = n + 1 THEN Len(s) + 1
               ELSE CHOOSE p \in P : ord[p] = k - 1]
  IN  [k \in 1..(n + 1) |-> Slice(s, at[k - 1], at[k] - 1)]

\* a < b for strings: byte by byte from offset i on, a proper prefix first
RECURSIVE LexLessFrom(_, _, _)
LexLessFrom(a, b, i) ==
  IF i > Len(b) THEN FALSE
  ELSE IF i > Len(a) THEN TRUE
  ELSE IF a[i] = b[i] THEN LexLessFrom(a, b, i + 1)
  ELSE a[i] < b[i]

LexLess(a, b) == LexLessFrom(a, b, 1)

\* np.sort(keys): the keys in increasing order
SortKeys(K) ==
  LET ranked == {<<Cardinality({j \in K : LexLess(j, k)}), k>> : k \in K}
  IN  [i \in 1..Cardinality(K) |-> (CHOOSE p \in ranked : p[1] = i - 1)[2]]

\* ------------------------------------------------------------------ numbers

(***************************************************************************)
(* A sample value is a Python number that may lie outside the 32-bit       *)
(* range: the number q * 65536 + r with 0 <= r < 65536 is the record       *)
(* [q |-> q, r |-> r] (q < 0 for a negative number).                       *)
(***************************************************************************)
Num(q, r) == [q |-> q, r |-> r]

\* an integer of the 32-bit range as a sample value
FromInt(v) == Num(v \div 65536, v % 65536)

\* a sample value of the 32-bit range as an integer
ToInt(x) == x.q * 65536 + x.r

\* -2^31 <= x <= 2^31 - 1
InInt32(x) == x.q >= -32768 /\ x.q <= 32767

Negative(x) == x.q < 0

\* abs(x) > 2.14e9, where 2140000000 = 32653 * 65536 + 52992
AbsOver214e7(x) ==
  \/ x.q > 32653 \/ (x.q = 32653 /\ x.r > 52992)
  \/ x.q < -32654 \/ (x.q = -32654 /\ x.r < 12544)

\* struct.pack('<i', v): four bytes, least significant first, two's complement
PackI32(v) ==
  <<v % 256, (v \div 256) % 256, (v \div 65536) % 256, (v \div 16777216) % 256>>

\* struct.pack('<h', v)
PackI16(v) == <<v % 256, (v \div 256) % 256>>

\* struct.pack('<i', x) of a sample value of the 32-bit range
PackNum(x) == <<x.r % 256, x.r \div 256, x.q % 256, (x.q \div 256) % 256>>

\* np.fromstring(b, np.int32) of four bytes
UnpackI32(b) ==
  b[1] + 256 * b[2] + 65536 * b[3]
    + 16777216 * (IF b[4] >= 128 THEN b[4] - 256 ELSE b[4])

\* np.fromstring(b, np.int16) of two bytes
UnpackI16(b) == b[1] + 256 * (IF b[2] >= 128 THEN b[2] - 256 ELSE b[2])

\* np.fromstring(s, np.int32): the 32-bit words of a string whose length is a
\* multiple of four
Words(s) == [k \in 1..(Len(s) \div 4) |-> UnpackI32(SubSeq(s, 4 * k - 3, 4 * k))]

\* ------------------------------------------------------------------ ZenCache

\* ZenCache._flag, ._stamp_len, ._nav_len and ._type_dict
Flag == -1
CacheStampLen == 10
NavLen == 43
TypeNav == 4
TypeMeta == 514
TypeCal == 768
TypeTs == 16

\* ZenCache._ch_factor and ._ch_gain
ChFactor == Enc(<<"9", ".", "5", "3", "6", "7", "4", "3", "1", "6", "4", "0", "6", "2", "5", "e", "-", "1", "0">>)
ChGain == Enc(<<"0", "1", "-", "0">>)

\* ZenCache._ch_lowpass_dict[str(int(df))]; the lookup fails for another rate
LowpassRates == {256, 1024, 4096}
ChLowpass(df) ==
  CASE df = 256 -> Digits(112)
    [] df = 1024 -> Digits(576)
    [] df = 4096 -> Digits(1792)

\* the keys of meta_data that write_cache_file fills per channel
K_CH_CMP == Enc(<<"C", "H", ".", "C", "M", "P">>)
K_CH_FACTOR == Enc(<<"C", "H", ".", "F", "A", "C", "T", "O", "R">>)
K_CH_GAIN == Enc(<<"C", "H", ".", "G", "A", "I", "N">>)
K_CH_LENGTH == Enc(<<"C", "H", ".", "L", "E", "N", "G", "T", "H">>)
K_CH_EXTGAIN == Enc(<<"C", "H", ".", "E", "X", "T", "G", "A", "I", "N">>)
K_CH_NOTCH == Enc(<<"C", "H", ".", "N", "O", "T", "C", "H">>)
K_CH_HIGHPASS == Enc(<<"C", "H", ".", "H", "I", "G", "H", "P", "A", "S", "S">>)
K_CH_LOWPASS == Enc(<<"C", "H", ".", "L", "O", "W", "P", "A", "S", "S">>)
K_CH_ADCARDSN == Enc(<<"C", "H", ".", "A", "D", "C", "A", "R", "D", "S", "N">>)
K_CH_NUMBER == Enc(<<"C", "H", ".", "N", "U", "M", "B", "E", "R">>)
K_RX_STN == Enc(<<"R", "X", ".", "S", "T", "N">>)
K_DATA_DATE0 == Enc(<<"D", "A", "T", "A", ".", "D", "A", "T", "E", "0">>)
K_DATA_TIME0 == Enc(<<"D", "A", "T", "A", ".", "T", "I", "M", "E", "0">>)
K_TS_ADFREQ == Enc(<<"T", "S", ".", "A", "D", "F", "R", "E", "Q">>)
K_TS_NPNT == Enc(<<"T", "S", ".", "N", "P", "N", "T">>)

\* ZenCache.__init__: self.meta_data, a dictionary from key to text
InitMetaData ==
     (Enc(<<"S", "U", "R", "V", "E", "Y", ".", "A", "C", "Q", "M", "E", "T", "H", "O", "D">>) :> Enc(<<",", "t", "i", "m", "e", "s", "e", "r", "i", "e", "s">>))
  @@ (Enc(<<"S", "U", "R", "V", "E", "Y", ".", "T", "Y", "P", "E">>) :> Enc(<<",">>))
  @@ (Enc(<<"L", "E", "N", "G", "T", "H", ".", "U", "N", "I", "T", "S">>) :> Enc(<<",", "m">>))
  @@ (Enc(<<"D", "A", "T", "A", ".", "D", "A", "T", "E", "0">>) :> <<>>)
  @@ (Enc(<<"D", "A", "T", "A", ".", "T", "I", "M", "E", "0">>) :> <<>>)
  @@ (Enc(<<"T", "S", ".", "A", "D", "F", "R", "E", "Q">>) :> <<>>)
  @@ (Enc(<<"T", "S", ".", "N", "P", "N", "T">>) :> <<>>)
  @@ (Enc(<<"C", "H", ".", "N", "U", "N", "O", "M">>) :> Enc(<<",">>))
  @@ (Enc(<<"C", "H", ".", "F", "A", "C", "T", "O", "R">>) :> <<>>)
  @@ (Enc(<<"C", "H", ".", "G", "A", "I", "N">>) :> <<>>)
  @@ (Enc(<<"C", "H", ".", "N", "U", "M", "B", "E", "R">>) :> <<>>)
  @@ (Enc(<<"C", "H", ".", "C", "M", "P">>) :> <<>>)
  @@ (Enc(<<"C", "H", ".", "L", "E", "N", "G", "T", "H">>) :> <<>>)
  @@ (Enc(<<"C", "H", ".", "E", "X", "T", "G", "A", "I", "N">>) :> <<>>)
  @@ (Enc(<<"C", "H", ".", "N", "O", "T", "C", "H">>) :> <<>>)
  @@ (Enc(<<"C", "H", ".", "H", "I", "G", "H", "P", "A", "S", "S">>) :> <<>>)
  @@ (Enc(<<"C", "H", ".", "L", "O", "W", "P", "A", "S", "S">>) :> <<>>)
  @@ (Enc(<<"C", "H", ".", "A", "D", "C", "A", "R", "D", "S", "N">>) :> <<>>)
  @@ (Enc(<<"C", "H", ".", "S", "T", "A", "T", "U", "S">>) :> Enc(<<",">>))
  @@ (Enc(<<"C", "H", ".", "S", "P">>) :> Enc(<<",">>))
  @@ (Enc(<<"C", "H", ".", "G", "D", "P", "S", "L", "O", "T">>) :> Enc(<<",">>))
  @@ (Enc(<<"R", "X", ".", "S", "T", "N">>) :> <<>>)
  @@ (Enc(<<"R", "X", ".", "A", "Z", "I", "M", "U", "T", "H">>) :> Enc(<<",">>))
  @@ (Enc(<<"L", "I", "N", "E", ".", "N", "A", "M", "E">>) :> Enc(<<",">>))
  @@ (Enc(<<"L", "I", "N", "E", ".", "N", "U", "M", "B", "E", "R">>) :> Enc(<<",">>))
  @@ (Enc(<<"L", "I", "N", "E", ".", "D", "I", "R", "E", "C", "T", "I", "O", "N">>) :> Enc(<<",">>))
  @@ (Enc(<<"L", "I", "N", "E", ".", "S", "P", "R", "E", "A", "D">>) :> Enc(<<",">>))
  @@ (Enc(<<"J", "O", "B", ".", "N", "A", "M", "E">>) :> Enc(<<",">>))
  @@ (Enc(<<"J", "O", "B", ".", "F", "O", "R">>) :> Enc(<<",">>))
  @@ (Enc(<<"J", "O", "B", ".", "B", "Y">>) :> Enc(<<",">>))
  @@ (Enc(<<"J", "O", "B", ".", "N", "U", "M", "B", "E", "R">>) :> Enc(<<",">>))
  @@ (Enc(<<"G", "D", "P", ".", "F", "i", "l", "e">>) :> Enc(<<",">>))
  @@ (Enc(<<"G", "D", "P", ".", "S", "N">>) :> Enc(<<",">>))
  @@ (Enc(<<"G", "D", "P", ".", "T", "C", "A", "R", "D", "S", "N">>) :> Enc(<<",">>))
  @@ (Enc(<<"G", "D", "P", ".", "N", "U", "M", "C", "A", "R", "D">>) :> Enc(<<",">>))
  @@ (Enc(<<"G", "D", "P", ".", "A", "D", "C", "A", "R", "D", "S", "N">>) :> Enc(<<",">>))
  @@ (Enc(<<"G", "D", "P", ".", "A", "D", "C", "A", "R", "D", "S", "N", "D">>) :> Enc(<<",">>))
  @@ (Enc(<<"G", "D", "P", ".", "C", "A", "R", "D", "T", "Y", "P", "E">>) :> Enc(<<",">>))
  @@ (Enc(<<"G", "D", "P", ".", "B", "A", "T">>) :> Enc(<<",">>))
  @@ (Enc(<<"G", "D", "P", ".", "T", "E", "M", "P">>) :> Enc(<<",">>))
  @@ (Enc(<<"G", "D", "P", ".", "H", "U", "M", "I", "D">>) :> Enc(<<",">>))
  @@ (Enc(<<"T", "S", ".", "N", "C", "Y", "C", "L", "E">>) :> Enc(<<",">>))
  @@ (Enc(<<"T", "S", ".", "N", "W", "A", "V", "E", "F", "O", "R", "M">>) :> Enc(<<",">>))
  @@ (Enc(<<"T", "S", ".", "D", "E", "C", "F", "A", "C">>) :> Enc(<<",">>))
  @@ (Enc(<<"T", "X", ".", "S", "N", ",", "N", "O", "N", "E">>) :> Enc(<<",">>))
  @@ (Enc(<<"T", "X", ".", "S", "T", "N">>) :> Enc(<<",">>))
  @@ (Enc(<<"T", "X", ".", "F", "R", "E", "Q">>) :> Enc(<<",">>))
  @@ (Enc(<<"T", "X", ".", "D", "U", "T", "Y">>) :> Enc(<<",">>))
  @@ (Enc(<<"T", "X", ".", "A", "M", "P">>) :> Enc(<<",">>))
  @@ (Enc(<<"T", "X", ".", "S", "H", "U", "N", "T">>) :> Enc(<<",">>))

\* one decoded channel as write_cache_file uses it: the attributes read_3d
\* leaves on a Zen3D (ch_cmp, ch_number, ch_length, ch_adcard_sn, rx_stn, df)
\* and the date and the time of day of its date_time[0]
Zt(cmp, number, length, sn, stn, df, date, tod) ==
  [ch_cmp |-> cmp, ch_number |-> number, ch_length |-> length,
   ch_adcard_sn |-> sn, rx_stn |-> stn, df |-> df, date0 |-> date, time0 |-> tod]

\* write_cache_file, the body of "for fn in fn_lst": the entries of one channel
FillMeta(md, zt1) ==
  [md EXCEPT
     ![K_DATA_DATE0] = <<COMMA>> \o zt1.date0,
     ![K_DATA_TIME0] = <<COMMA>> \o zt1.time0,
     ![K_TS_ADFREQ] = <<COMMA>> \o Digits(zt1.df),
     ![K_CH_FACTOR] = @ \o <<COMMA>> \o ChFactor,
     ![K_CH_GAIN] = @ \o <<COMMA>> \o ChGain,
     ![K_CH_CMP] = @ \o <<COMMA>> \o Upper(zt1.ch_cmp),
     ![K_CH_LENGTH] = @ \o <<COMMA>> \o zt1.ch_length,
     ![K_CH_EXTGAIN] = @ \o <<COMMA>> \o Enc(<<"1">>),
     ![K_CH_NOTCH] = @ \o <<COMMA>> \o Enc(<<"N", "O", "N", "E">>),
     ![K_CH_HIGHPASS] = @ \o <<COMMA>> \o Enc(<<"N", "O", "N", "E">>),
     ![K_CH_LOWPASS] = @ \o <<COMMA>> \o ChLowpass(zt1.df),
     ![K_CH_ADCARDSN] = @ \o <<COMMA>> \o zt1.ch_adcard_sn,
     ![K_CH_NUMBER] = @ \o <<COMMA>> \o zt1.ch_number,
     ![K_RX_STN] = @ \o <<COMMA>> \o zt1.rx_stn]

RECURSIVE FillMetaAll(_, _)
FillMetaAll(md, zts) ==
  IF zts = <<>> THEN md ELSE FillMetaAll(FillMeta(md, Head(zts)), Tail(zts))

\* meta_str: key + value + '\n' for the keys in sorted order
MetaStr(md) ==
  LET keys == SortKeys(DOMAIN md)
  IN  Join([i \in 1..Len(keys) |-> keys[i] \o md[keys[i]] \o <<NL>>])

\* the calibration text for n_fn channels: cal_data1 + cal_data2 * (n_fn - 1)
CalEntry ==
  Enc(<<" ", "0", ".", "0", "0", "0", "0", "0", "0", ":", " ">>)
    \o Repeat(Enc(<<"0", ".", "0", "0", "0", "0", "0", "0", " ", " ", " ", " ", " ", " ",
                    "0", ".", "0", "0", "0", "0", "0", "0", ",">>), 3)
CalSys == Enc(<<"C", "A", "L", ".", "S", "Y", "S", ",", "0", "0", "0", "0", ",">>)
CalData1 ==
  Enc(<<"H", "E", "A", "D", "E", "R", ".", "T", "Y", "P", "E", ",",
        "C", "a", "l", "i", "b", "r", "a", "t", "e", "\n",
        "C", "A", "L", ".", "V", "E", "R", ",", "0", "1", "9", "\n">>)
    \o CalSys \o Repeat(CalEntry, 27)
CalData2 == <<NL>> \o CalSys \o Repeat(CalEntry, 27)
CalData(n_fn) == CalData1 \o Repeat(CalData2, n_fn - 1)

\* the value the clamping branch packs: np.sign(ts[zz, nn] * 2.14e9), which is
\* 1 or -1
ClipValue(x) == IF Negative(x) THEN FromInt(-1) ELSE FromInt(1)

\* one row of the time-series frame.  struct.pack of the whole row raises
\* struct.error when a value is outside the 32-bit range; the row is then
\* written value by value, a value with abs(value) > 2.14e9 clipped
RowFails(row) == \E nn \in 1..Len(row) : ~InInt32(row[nn])

StoredValue(row, nn) ==
  IF RowFails(row) /\ AbsOver214e7(row[nn]) THEN ClipValue(row[nn]) ELSE row[nn]

RowBytes(row) == Join([nn \in 1..Len(row) |-> PackNum(StoredValue(row, nn))])

\* the lines the clamping branch appends to log_lines: (channel nn, point zz)
RowLog(row, zz) ==
  LET hit == {nn \in 1..Len(row) : RowFails(row) /\ AbsOver214e7(row[nn])}
      nth(k) == CHOOSE nn \in hit : Cardinality({m \in hit : m < nn}) = k - 1
  IN  [k \in 1..Cardinality(hit) |-> <<"clip", nth(k) - 1, zz>>]

\* the lines appended to log_lines once the file is closed
SavedLog == <<(<<"rule">>), (<<"Saved File to">>), (<<"save_fn">>), (<<"rule">>)>>

\* the four frames as write_cache_file writes them: the leading length, the
\* flag, the type, the payload and the trailing length
Frame(lead, type, payload, trail) ==
  PackI32(lead) \o PackI32(Flag) \o PackI16(type) \o payload \o PackI32(trail)

NavFrame ==
  Frame(NavLen, TypeNav, [nd \in 1..(NavLen - 2) |-> 0], NavLen)

MetaFrame(md) ==
  LET meta_str == MetaStr(md)
      meta_len == Len(meta_str)
  IN  Frame(meta_len + 2, TypeMeta, meta_str, meta_len + 2)

CalPayloadCut(cal_data) == Slice(cal_data, 0, Len(cal_data) - 1)

\* cal_data[:-1] + '\n'
CalPayload(cal_data) == Slice(cal_data, 0, Len(cal_data) - 1) \o <<NL>>

CalFrame(n_fn) ==
  LET cal_data == CalData(n_fn)
      cal_len == Len(cal_data)
  IN  Frame(cal_len + 2, TypeCal, CalPayload(cal_data), cal_len + 2)

TsBlockLen(ts_len, n_fn) == ts_len * n_fn * 4 + 2

TsPayload(m, ts_len) == Join([zz \in 1..ts_len |-> RowBytes(m[zz])])

TsFrame(m, ts_len, n_fn) ==
  Frame(TsBlockLen(ts_len, n_fn), TypeTs, TsPayload(m, ts_len), TsBlockLen(ts_len, n_fn))

\* ---- read_cache

\* np.fromstring(s, dtype=self._data_type)['len'] of a ten-byte block header
BlockLen(hdr) == UnpackI32(SubSeq(hdr, 1, 4))

\* read_cache: the dictionary of the metadata text.  Each line mm gives
\* meta_data[mm[0:mfind]] = mm[mfind+1:].split(','), a later line replacing
\* an earlier one of the same key
MetaKey(mm) == Slice(mm, 0, FindByte(mm, COMMA))
MetaValue(mm) == Split(Slice(mm, FindByte(mm, COMMA) + 1, Len(mm)), COMMA)
ParseMeta(text) ==
  LET meta_lst == Split(text, NL)
      keys == [i \in 1..Len(meta_lst) |-> MetaKey(meta_lst[i])]
      last(k) == CHOOSE i \in 1..Len(keys) :
                   keys[i] = k /\ \A j \in (i + 1)..Len(keys) : keys[j] # k
  IN  [k \in {keys[i] : i \in 1..Len(keys)} |-> MetaValue(meta_lst[last(k)])]

ReshapeByColumn(flat, num_chn) ==
  [zz \in 1..(Len(flat) \div num_chn) |->
     [nn \in 1..num_chn |-> FromInt(flat[(nn - 1) * (Len(flat) \div num_chn) + zz])]]

ReshapeTransposed(flat, num_chn) ==
  [zz \in 1..num_chn |->
     [nn \in 1..(Len(flat) \div num_chn) |->
        FromInt(flat[(zz - 1) * (Len(flat) \div num_chn) + nn])]]

\* self.ts.reshape(n / num_chn, num_chn): the rows of the flat samples
Reshape(flat, num_chn) ==
  [zz \in 1..(Len(flat) \div num_chn) |->
     [nn \in 1..num_chn |-> FromInt(flat[(zz - 1) * num_chn + nn])]]

LenCheckLow(cdata, ii, lead) ==
  LET chk == Slice(cdata, ii, ii + 4)
  IN  CASE Len(chk) = 4 -> IF UnpackI32(chk) % 65536 # lead % 65536 THEN "IOError" ELSE "ok"
        [] Len(chk) = 0 -> "ok"
        [] OTHER -> "ValueError"

\* the trailing length of a frame: the four bytes at [ii, ii+4) against the
\* leading length.  "differ" raises IOError; fewer than four bytes left make
\* np.fromstring fail (1 to 3 bytes) or give an empty array, which compares
\* as false (no bytes)
LenCheck(cdata, ii, lead) ==
  LET chk == Slice(cdata, ii, ii + 4)
  IN  CASE Len(chk) = 4 -> IF UnpackI32(chk) # lead THEN "IOError" ELSE "ok"
        [] Len(chk) = 0 -> "ok"
        [] OTHER -> "ValueError"

\* a ten-byte block header read at ii: "ok", or the failure of np.fromstring
\* on a short string
HdrCheck(cdata, ii) ==
  LET hdr == Slice(cdata, ii, ii + CacheStampLen)
  IN  CASE Len(hdr) = CacheStampLen -> "ok"
        [] Len(hdr) = 0 -> "TypeError"
        [] OTHER -> "ValueError"

\* read_cache(cdata) on an instance whose fields are old: the fields after
\* the call and err, the exception that ended it ("none": it returned)
ReadCacheOf(cdata, old) ==
  LET \* --> read navigation data
      nav_len == BlockLen(Slice(cdata, 0, CacheStampLen))
      nav_ii == CacheStampLen
      nav_jj == CacheStampLen + nav_len - 2
      nav_data == Slice(cdata, nav_ii, nav_jj)
      s1 == [old EXCEPT !.nav_data = nav_data]
      nav_ok == LenCheck(cdata, nav_jj, nav_len)
      \* --> read meta data
      meta_hdr == nav_jj + 4
      meta_len == BlockLen(Slice(cdata, meta_hdr, meta_hdr + CacheStampLen))
      meta_ii == meta_hdr + CacheStampLen
      meta_jj == meta_ii + meta_len - 2
      s2 == [s1 EXCEPT !.meta_data = ParseMeta(Slice(cdata, meta_ii, meta_jj))]
      meta_ok == LenCheck(cdata, meta_jj, meta_len)
      \* --> read calibrations
      cal_hdr == meta_jj + 4
      cal_len == BlockLen(Slice(cdata, cal_hdr, cal_hdr + CacheStampLen))
      cal_ii == cal_hdr + CacheStampLen
      cal_jj == cal_ii + cal_len - 2
      s3 == [s2 EXCEPT !.cal_data = Slice(cdata, cal_ii, cal_jj)]
      cal_ok == LenCheck(cdata, cal_jj, cal_len)
      \* --> read data
      ts_hdr == cal_jj + 4
      ts_len == BlockLen(Slice(cdata, ts_hdr, ts_hdr + CacheStampLen))
      ts_ii == ts_hdr + CacheStampLen
      ts_jj == ts_ii + ts_len - 2
      ts_str == Slice(cdata, ts_ii, ts_jj)
      flat == Words(ts_str)
      s4 == [s3 EXCEPT !.ts = flat]
      num_chn == Len(s3.meta_data[K_CH_CMP])
      s5 == [s3 EXCEPT !.ts = Reshape(flat, num_chn)]
      ts_ok == LenCheck(cdata, ts_jj, ts_len)
      fail(s, e) == [s EXCEPT !.err = e]
  IN  CASE HdrCheck(cdata, 0) # "ok" -> fail(old, HdrCheck(cdata, 0))
        [] nav_ok # "ok" -> fail(s1, nav_ok)
        [] HdrCheck(cdata, meta_hdr) # "ok" -> fail(s1, HdrCheck(cdata, meta_hdr))
        [] meta_ok # "ok" -> fail(s2, meta_ok)
        [] HdrCheck(cdata, cal_hdr) # "ok" -> fail(s2, HdrCheck(cdata, cal_hdr))
        [] cal_ok # "ok" -> fail(s3, cal_ok)
        [] HdrCheck(cdata, ts_hdr) # "ok" -> fail(s3, HdrCheck(cdata, ts_hdr))
        [] Len(ts_str) % 4 # 0 -> fail(s3, "ValueError")
        [] K_CH_CMP \notin DOMAIN s3.meta_data -> fail(s4, "KeyError")
        [] (Len(flat) \div num_chn) * num_chn # Len(flat) -> fail(s4, "ValueError")
        [] ts_ok # "ok" -> fail(s5, ts_ok)
        [] OTHER -> fail(s5, "none")

\* ------------------------------------------------------------------ Zen3D

\* Zen3D.__init__
WeekLen == 604800
SENTINEL == 255
GpsStamp == <<SENTINEL, SENTINEL, SENTINEL, SENTINEL>>

\* ---- get_gps_time

GetGpsTimeAtOrOver(gps_int, gps_week) ==
  LET over == gps_int >= WeekLen * 1024
      week == IF over THEN gps_week + 1 ELSE gps_week
      cc == IF over THEN week * WeekLen ELSE 0
      gps_seconds == IF over THEN gps_int - WeekLen * 1024 ELSE gps_int
  IN  [sec |-> (gps_seconds \div 1024) + cc, ms |-> gps_int % 1024, gps_week |-> week]

GetGpsTimeNoCc(gps_int, gps_week) ==
  LET over == gps_int > WeekLen * 1024
      week == IF over THEN gps_week + 1 ELSE gps_week
      gps_seconds == IF over THEN gps_int - WeekLen * 1024 ELSE gps_int
  IN  [sec |-> gps_seconds \div 1024, ms |-> gps_int % 1024, gps_week |-> week]

\* get_gps_time(gps_int, gps_week): the time returned is sec + ms / 1000
\* seconds.  gps_seconds = gps_int / 1024. ; gps_ms = (gps_seconds -
\* floor(gps_seconds)) * 1.024, which is (gps_int mod 1024) / 1000 ; the
\* comparison with the week length is gps_int > 604800 * 1024 ; gps_week is
\* the local variable as the call leaves it
GetGpsTime(gps_int, gps_week) ==
  LET over == gps_int > WeekLen * 1024
      week == IF over THEN gps_week + 1 ELSE gps_week
      cc == IF over THEN week * WeekLen ELSE 0
      gps_seconds == IF over THEN gps_int - WeekLen * 1024 ELSE gps_int
  IN  [sec |-> (gps_seconds \div 1024) + cc, ms |-> gps_int % 1024, gps_week |-> week]

\* ---- get_gps_stamp_location

\* str.find(self._gps_stamp, start): the lowest offset at or after start
\* where the four bytes of the stamp begin, -1 if there is none.  A start
\* of None is 0, a negative start counts from the end
IsStampAt(raw, i) ==
  /\ i >= 0 /\ i + 4 <= Len(raw)
  /\ \A d \in 1..4 : raw[i + d] = GpsStamp[d]

FindStamp(raw, start) ==
  LET n == Len(raw)
      from == IF start < 0 THEN (IF start + n < 0 THEN 0 ELSE start + n) ELSE start
  IN  IF \E i \in from..(n - 4) : IsStampAt(raw, i)
      THEN CHOOSE i \in from..(n - 4) :
             IsStampAt(raw, i) /\ \A j \in from..(i - 1) : ~IsStampAt(raw, j)
      ELSE -1

RECURSIVE StampWalk3(_, _, _)
StampWalk3(raw, gps_index, steps) ==
  CASE steps = 3 -> [err |-> "none", gps_index |-> gps_index]
    [] gps_index + 4 >= Len(raw) -> [err |-> "IndexError", gps_index |-> gps_index]
    [] raw[gps_index + 5] = SENTINEL -> StampWalk3(raw, gps_index + 1, steps + 1)
    [] OTHER -> [err |-> "none", gps_index |-> gps_index]

\* the nested tests of raw_data[gps_index+4] == '\xff', steps of them passed:
\* an offset beyond the last byte raises IndexError
RECURSIVE StampWalk(_, _, _)
StampWalk(raw, gps_index, steps) ==
  CASE steps = 4 -> [err |-> "none", gps_index |-> gps_index]
    [] gps_index + 4 >= Len(raw) -> [err |-> "IndexError", gps_index |-> gps_index]
    [] raw[gps_index + 5] = SENTINEL -> StampWalk(raw, gps_index + 1, steps + 1)
    [] OTHER -> [err |-> "none", gps_index |-> gps_index]

\* get_gps_stamp_location(start_index); start_index is <<>> for None and
\* <<k>> for the offset k
GetGpsStampLocation(raw, start_index) ==
  StampWalk(raw, FindStamp(raw, IF start_index = <<>> THEN 0 ELSE start_index[1]), 0)

\* ---- the numbers of a stamp

StampLen == 36
LeapSeconds == 16
SecondsDiff == 5
SkipSampleTolerance == 5

\* x.astype(np.float32) of a 32-bit integer, stored back into a 32-bit
\* integer field: the nearest number of 24 significant bits, ties to even
F32Round(n) ==
  LET a == IF n < 0 THEN -n ELSE n
      q == CASE a < 16777216 -> 1
             [] a < 33554432 -> 2
             [] a < 67108864 -> 4
             [] a < 134217728 -> 8
             [] a < 268435456 -> 16
             [] a < 536870912 -> 32
             [] a < 1073741824 -> 64
             [] OTHER -> 128
      lo == (a \div q) * q
      r == a - lo
      up == IF 2 * r > q \/ (2 * r = q /\ (lo \div q) % 2 = 1) THEN lo + q ELSE lo
  IN  IF n = -2147483647 - 1 THEN n ELSE IF n < 0 THEN -up ELSE up

\* the float returned by get_gps_time stored into the 32-bit integer field
\* 'time': sec + ms / 1000 truncated towards zero
TruncTime(g) ==
  CASE g.sec >= 0 -> g.sec + (IF g.ms >= 1000 THEN 1 ELSE 0)
    [] g.sec = -1 -> IF g.ms = 0 THEN -1 ELSE 0
    [] OTHER -> g.sec + (IF g.ms = 0 THEN 0 ELSE IF g.ms <= 1000 THEN 1 ELSE 2)

\* gps_info['time'] = gps_info['time'].astype(np.float32)
\* gps_info['time'] = self.get_gps_time(gps_info['time'])
StampTime(counter) == TruncTime(GetGpsTime(F32Round(counter), 0))

\* a float64 or float32 field is kept as its bytes; the bytes of the
\* magnitude, most significant first, order as the magnitudes do
PiBits == <<24, 45, 68, 84, 251, 33, 9, 64>>
MilliBits == <<252, 169, 241, 210, 77, 98, 80, 63>>
EightyBits == <<0, 0, 160, 66>>
ZeroF64 == <<0, 0, 0, 0, 0, 0, 0, 0>>
ZeroF32 == <<0, 0, 0, 0>>

Magnitude(b) == [i \in 1..Len(b) |-> IF i = 1 THEN b[Len(b)] % 128 ELSE b[Len(b) + 1 - i]]

IsNaN(b) ==
  IF Len(b) = 8
  THEN /\ b[8] % 128 = 127 /\ b[7] >= 240
       /\ (b[7] % 16 # 0 \/ \E i \in 1..6 : b[i] # 0)
  ELSE /\ b[4] % 128 = 127 /\ b[3] >= 128
       /\ (b[3] % 128 # 0 \/ b[2] # 0 \/ b[1] # 0)

\* abs(b) > abs(c) and abs(b) < abs(c), false for a NaN
AbsGreater(b, c) == ~IsNaN(b) /\ LexLess(Magnitude(c), Magnitude(b))
AbsLess(b, c) == ~IsNaN(b) /\ LexLess(Magnitude(b), Magnitude(c))

\* ---- get_date_time and compute_schedule_start

\* time.mktime(self._gps_epoch) - time.timezone: 1980-01-06 00:00:00 UTC
GpsEpochSeconds == 315964800

\* '{0:02}'.format(n), '%m', '%Y': n in decimal, zeros in front up to width w
Pad(n, w) == Repeat(<<48>>, w - Len(Digits(n))) \o Digits(n)

\* int(s) of a string of digits
RECURSIVE ParseInt(_)
ParseInt(s) ==
  IF Len(s) = 0 THEN 0 ELSE 10 * ParseInt(SubSeq(s, 1, Len(s) - 1)) + (s[Len(s)] - 48)

\* time.strftime(datetime_fmt, (year, month, day, hour, minutes, seconds, ...))
FormatDateTime(y, m, d, h, mi, sec) ==
  Pad(y, 4) \o <<45>> \o Pad(m, 2) \o <<45>> \o Pad(d, 2) \o <<COMMA>>
    \o Pad(h, 2) \o <<58>> \o Pad(mi, 2) \o <<58>> \o Pad(sec, 2)

\* the calendar date of a day counted from 1970-01-01, as time.gmtime gives it
CivilFromDays(days) ==
  LET z == days + 719468
      era == z \div 146097
      doe == z - era * 146097
      yoe == (doe - doe \div 1460 + doe \div 36524 - doe \div 146096) \div 365
      doy == doe - (365 * yoe + yoe \div 4 - yoe \div 100)
      mp == (5 * doy + 2) \div 153
      m == IF mp < 10 THEN mp + 3 ELSE mp - 9
  IN  [y |-> yoe + era * 400 + (IF m <= 2 THEN 1 ELSE 0),
       m |-> m,
       d |-> doy - (153 * mp + 2) \div 5 + 1]

\* get_date_time(gps_week, gps_time) for a whole number of seconds gps_time
GetDateTime(gps_week, gps_time) ==
  LET gps_seconds == GpsEpochSeconds + gps_week * WeekLen + gps_time - LeapSeconds
      civil == CivilFromDays(gps_seconds \div 86400)
      rem == gps_seconds % 86400
  IN  FormatDateTime(civil.y, civil.m, civil.d,
                     rem \div 3600, (rem % 3600) \div 60, rem % 60)

MonthDict == <<31, 28, 31, 30, 31, 30, 31, 31, 30, 31, 30, 31>>

\* compute_schedule_start(start_date, start_time): err is "KeyError" when
\* the month before January is looked up in month_dict
ComputeScheduleStart(start_date, start_time) ==
  LET dparts == Split(start_date, 45)
      tparts == Split(start_time, 58)
      year == ParseInt(dparts[1])
      month == ParseInt(dparts[2])
      day == ParseInt(dparts[3])
      hour == ParseInt(tparts[1])
      minutes == ParseInt(tparts[2])
      seconds == ParseInt(tparts[3])
      b1 == seconds - LeapSeconds < 0
      new_seconds == IF b1 THEN (seconds - LeapSeconds) % 60 ELSE seconds - LeapSeconds
      b2 == b1 /\ minutes - 1 < 0
      new_minutes == IF b2 THEN (minutes - 1) % 60 ELSE IF b1 THEN minutes - 1 ELSE minutes
      b3 == b2 /\ hour - 1 < 0
      new_hour == IF b3 THEN (hour - 1) % 24 ELSE IF b2 THEN hour - 1 ELSE hour
      b4 == b3 /\ day - 1 <= 0
      new_month == IF b4 THEN month - 1 ELSE month
      new_day == IF b4 THEN MonthDict[new_month] - day + 1
                 ELSE IF b3 THEN day - 1 ELSE day
  IN  CASE Len(dparts) # 3 \/ Len(tparts) # 3 ->
             [err |-> "ValueError", ndate_time |-> <<>>]
        [] b4 /\ new_month \notin DOMAIN MonthDict ->
             [err |-> "KeyError", ndate_time |-> <<>>]
        [] OTHER ->
             [err |-> "none",
              ndate_time |-> FormatDateTime(year, new_month, new_day,
                                            new_hour, new_minutes, new_seconds)]

\* ---- get_gps_stamp

\* np.fromstring(raw_data[gps_index:gps_index+36], dtype=self._data_type)
\* with the time converted: a stamp, "empty" (no bytes: an empty array) or
\* "short" (fewer than 36 bytes: ValueError)
DecodeStamp(raw, gps_index) ==
  LET b == Slice(raw, gps_index, gps_index + StampLen)
  IN  CASE Len(b) = StampLen ->
             [kind |-> "stamp",
              info |-> [gps |-> UnpackI32(SubSeq(b, 1, 4)),
                        time |-> StampTime(UnpackI32(SubSeq(b, 5, 8))),
                        lat |-> SubSeq(b, 9, 16),
                        lon |-> SubSeq(b, 17, 24),
                        status |-> SubSeq(b, 25, 28),
                        gps_accuracy |-> UnpackI32(SubSeq(b, 29, 32)),
                        temperature |-> SubSeq(b, 33, 36)]]
        [] Len(b) = 0 -> [kind |-> "empty", info |-> <<>>]
        [] OTHER -> [kind |-> "short", info |-> <<>>]

\* the conditions of the five while loops, in order; status is unsigned, so
\* the second is never true; log10(abs(lat)) < -3 is abs(lat) < 0.001
GateFails(gate, info) ==
  CASE gate = 1 -> info.time < 0
    [] gate = 2 -> FALSE
    [] gate = 3 -> AbsGreater(info.temperature, EightyBits)
    [] gate = 4 -> AbsGreater(info.lat, PiBits)
    [] gate = 5 -> AbsLess(info.lat, MilliBits)

\* get_gps_stamp from the while loop number gate on, the stamp at gps_index
\* being the current one.  kind is "stamp" (gps_info returned), "empty"
\* (gps_info returned is an empty array), "none" (None returned after the
\* ValueError of a short stamp) or "IndexError" (raised by
\* get_gps_stamp_location)
RECURSIVE GetGpsStampFrom(_, _, _)
GetGpsStampFrom(raw, gps_index, gate) ==
  LET d == DecodeStamp(raw, gps_index)
      next == GetGpsStampLocation(raw, <<gps_index + 7>>)
  IN  CASE d.kind = "short" -> [kind |-> "none", info |-> <<>>, gps_index |-> gps_index]
        [] d.kind = "empty" -> [kind |-> "empty", info |-> <<>>, gps_index |-> gps_index]
        [] gate > 5 -> [kind |-> "stamp", info |-> d.info, gps_index |-> gps_index]
        [] ~GateFails(gate, d.info) -> GetGpsStampFrom(raw, gps_index, gate + 1)
        [] next.err # "none" ->
             [kind |-> "IndexError", info |-> <<>>, gps_index |-> next.gps_index]
        [] OTHER -> GetGpsStampFrom(raw, next.gps_index, gate)

GetGpsStamp(raw, gps_index) == GetGpsStampFrom(raw, gps_index, 1)

\* ---- read_3d

(***************************************************************************)
(* A raw channel file is the record [raw, hdr]: raw holds all its bytes,   *)
(* hdr the entries read_3d takes from the header and metadata text of the  *)
(* first 1024 bytes (header_dict, meta_dict), which are taken as parsed.   *)
(* The Zen3D instance and the locals of read_3d are the fields of one      *)
(* record.  A numpy array is a sequence; the float64 entries gps_dict      *)
(* holds for 'lat' and 'lon' are kept as the bytes of the radians they     *)
(* were converted from, time_series as counts (before the constant         *)
(* counts_to_mv_conversion is applied).                                    *)
(***************************************************************************)

Abs(x) == IF x < 0 THEN -x ELSE x
MaxOf(S) == CHOOSE x \in S : \A y \in S : y <= x

\* s[i] for a Python index i, negative from the end
PyAt(s, i) == IF i < 0 THEN s[Len(s) + i + 1] ELSE s[i + 1]

\* the bounds of the slice [i:j] of a sequence of n elements
SliceBounds(n, i, j) ==
  LET norm(k) == IF k < 0 THEN (IF k + n < 0 THEN 0 ELSE k + n)
                 ELSE IF k > n THEN n ELSE k
  IN  [start |-> norm(i), stop |-> IF norm(j) < norm(i) THEN norm(i) ELSE norm(j)]

Zeros(n, zero) == [i \in 1..n |-> zero]

\* gps_dict: one array of num_blocks zeros per field of the stamp
ZeroGpsDict(n) ==
  [gps |-> Zeros(n, 0), time |-> Zeros(n, 0), lat |-> Zeros(n, ZeroF64),
   lon |-> Zeros(n, ZeroF64), status |-> Zeros(n, ZeroF32),
   gps_accuracy |-> Zeros(n, 0), temperature |-> Zeros(n, ZeroF32)]

\* for jj, key in enumerate(self._stamp_lst): gps_dict[key][ii] = gps_info[0][jj]
PutStamp(gps_dict, ii, info) ==
  [gps_dict EXCEPT !.gps[ii + 1] = info.gps,
                   !.time[ii + 1] = F32Round(info.time),
                   !.lat[ii + 1] = info.lat,
                   !.lon[ii + 1] = info.lon,
                   !.status[ii + 1] = info.status,
                   !.gps_accuracy[ii + 1] = info.gps_accuracy,
                   !.temperature[ii + 1] = info.temperature]

\* a Zen3D instance as __init__ leaves it; the attributes and locals that
\* read_3d sets later are empty
NewZen3D ==
  [phase |-> "new", err |-> "none",
   seconds_diff |-> SecondsDiff, log_lines |-> <<>>, sample_diff_lst |-> <<>>,
   df |-> 0, gps_week |-> 0, schedule_date |-> <<>>, schedule_time |-> <<>>,
   start_dt |-> <<>>, start_date |-> <<>>, start_time |-> <<>>,
   ch_adcard_sn |-> <<>>, ch_number |-> <<>>, ch_cmp |-> <<>>, ch_length |-> <<>>,
   rx_stn |-> <<>>,
   num_blocks |-> 0, gps_lst |-> <<>>, gps_dict |-> ZeroGpsDict(0),
   s1 |-> 0, time_stop |-> 0, gps_info |-> <<>>, start_test |-> <<>>, ii |-> 0,
   found |-> <<>>,
   gps_diff |-> <<>>, gps_time |-> <<>>, temperature |-> <<>>, lat |-> <<>>,
   lon |-> <<>>, date_time |-> <<>>, time_series |-> <<>>]

Failed(z, e) == [z EXCEPT !.phase = "failed", !.err = e]

\* read_3d up to the first start_test (lines 151-278)
Read3dOpenOf(f, z) ==
  LET raw == f.raw
      hdr == f.hdr
      sched == ComputeScheduleStart(hdr.schedule_date, hdr.schedule_time)
      block_len == StampLen + hdr.df * 4
      num_blocks == (Len(raw) + block_len - 1) \div block_len
      first == GetGpsStampLocation(raw, <<>>)
      d == DecodeStamp(raw, first.gps_index)
      z0 == [z EXCEPT
               !.log_lines = IF Len(@) = 0
                             THEN <<(<<"rule">>), (<<"Reading File">>)>> ELSE @,
               !.df = hdr.df, !.gps_week = hdr.gps_week,
               !.schedule_date = hdr.schedule_date,
               !.schedule_time = hdr.schedule_time]
      z1 == [z0 EXCEPT
               !.start_dt = sched.ndate_time,
               !.start_time = hdr.schedule_time, !.start_date = hdr.schedule_date,
               !.ch_adcard_sn = hdr.serial, !.ch_number = hdr.ch_number,
               !.ch_cmp = hdr.ch_cmp, !.ch_length = hdr.ch_varasp,
               !.rx_stn = hdr.rx_stn,
               !.num_blocks = num_blocks,
               !.gps_dict = ZeroGpsDict(num_blocks),
               !.gps_lst = Zeros(num_blocks, 0), !.s1 = 0]
      z2 == [z1 EXCEPT !.gps_lst[1] = first.gps_index]
  IN  CASE sched.err # "none" -> Failed(z0, sched.err)
        [] first.err # "none" -> Failed(z1, first.err)
        [] d.kind = "short" -> Failed(z2, "ValueError")
        [] d.kind = "empty" -> Failed(z2, "TypeError")
        [] OTHER ->
             [z2 EXCEPT !.phase = "match",
                        !.gps_info = d.info,
                        !.start_test = GetDateTime(hdr.gps_week, d.info.time),
                        !.time_stop = 0]

MatchCondLoose(z) ==
  /\ z.start_test # z.start_dt
  /\ z.s1 <= z.seconds_diff
  /\ z.time_stop <= z.seconds_diff + 1

\* the condition of the start-matching loop (lines 283-284)
MatchCond(z) ==
  /\ z.start_test # z.start_dt
  /\ z.s1 <= z.seconds_diff
  /\ z.time_stop <= z.seconds_diff

\* self.start_dt[:-2] + '{0:02}'.format(int(self.start_dt[-2:]) + 1)
Nudge(dt) ==
  Slice(dt, 0, -2) \o Pad(ParseInt(Slice(dt, Len(dt) - 2, Len(dt))) + 1, 2)

\* one pass of the body of the start-matching loop (lines 285-299)
MatchStepOf(f, z) ==
  LET raw == f.raw
      s1 == z.s1 + 1
      loc == GetGpsStampLocation(raw, <<z.gps_lst[1] + 7>>)
      d == DecodeStamp(raw, loc.gps_index)
      again == GetGpsStampLocation(raw, <<>>)
      z1 == [z EXCEPT !.s1 = s1]
      z2 == [z1 EXCEPT !.gps_lst[1] = loc.gps_index]
      z3 == [z2 EXCEPT !.gps_info = d.info,
                       !.start_test = GetDateTime(z.gps_week, d.info.time)]
  IN  CASE loc.err # "none" -> Failed(z1, loc.err)
        [] d.kind = "short" -> Failed(z2, "ValueError")
        [] d.kind = "empty" -> Failed(z2, "TypeError")
        [] s1 # z.seconds_diff -> z3
        [] again.err # "none" ->
             Failed([z3 EXCEPT !.s1 = 0, !.start_dt = Nudge(@)], again.err)
        [] OTHER ->
             [z3 EXCEPT !.s1 = 0, !.start_dt = Nudge(@),
                        !.gps_lst[1] = again.gps_index,
                        !.time_stop = @ + 1]

\* lines 312-313, and the loop variable of "for ii in range(s1, num_blocks-1)"
StartWalkOf(z) ==
  [z EXCEPT !.phase = "walk",
            !.gps_dict = PutStamp(@, 0, z.gps_info),
            !.ii = z.s1]

\* one pass of the body of the stamp walk (lines 317-326)
WalkStepOf(f, z) ==
  LET raw == f.raw
      prev == PyAt(z.gps_lst, z.ii - 1)
      sfind == GetGpsStampLocation(raw, <<prev + 7>>)
      g == GetGpsStamp(raw, sfind.gps_index)
      z1 == [z EXCEPT !.gps_lst[z.ii + 1] = g.gps_index]
  IN  CASE sfind.err # "none" -> Failed(z, sfind.err)
        [] sfind.gps_index = prev \/ sfind.gps_index = -1 -> [z EXCEPT !.ii = @ + 1]
        [] g.kind = "IndexError" -> Failed(z, "IndexError")
        [] g.kind = "none" -> [z1 EXCEPT !.ii = @ + 1]
        [] g.kind = "empty" -> Failed(z1, "IndexError")
        [] OTHER -> [z1 EXCEPT !.gps_dict = PutStamp(@, z.ii, g.info), !.ii = @ + 1]

\* gps_diff, bad_lock, dsamples and the trimming bounds (lines 329-374) for
\* the stamp offsets and the stamp arrays the walk has filled
FoundOf(z) ==
  LET gps_lst == z.gps_lst
      time == SelectSeq(z.gps_dict.time, LAMBDA t : t # 0)
      num_samples == Len(time)
      gps_diff == [i \in 1..(num_samples - 1) |-> time[i + 1] - time[i]]
      diff_nz == SelectSeq(gps_diff, LAMBDA x : x # 0)
      bad_lock == SelectSeq([i \in 1..Len(diff_nz) |-> i - 1],
                            LAMBDA bb : diff_nz[bb + 1] # 1)
      \* gps_lst[nn+1] past the end of gps_lst raises IndexError
      dsamples == [nn \in 1..num_samples |->
                     IF nn + 1 > Len(gps_lst) THEN 0
                     ELSE (gps_lst[nn + 1] - gps_lst[nn] - StampLen - z.df * 4) \div 4]
      bad_interval == {bb \in 0..(num_samples - 1) :
                         Abs(dsamples[bb + 1]) > SkipSampleTolerance}
      low == {bb \in bad_interval : bb <= 10}
      high == {bb \in bad_interval : bb > num_samples - 10}
  IN  [gps_lst |-> gps_lst, time |-> time, num_samples |-> num_samples,
       gps_diff |-> gps_diff, bad_lock |-> bad_lock,
       dsamples |-> dsamples, bad_interval |-> bad_interval,
       bmin |-> IF low = {} THEN 0 ELSE MaxOf(low) + 1,
       bmax |-> IF high = {} THEN num_samples ELSE MaxOf(high)]

\* the lines logged for the lock losses (lines 340-355): the stamp offset
\* and the difference at the index bb
LockLog(fd) ==
  IF Len(fd.bad_lock) = 0 THEN <<>>
  ELSE <<(<<"BAD GPS LOCK">>)>>
         \o [k \in 1..Len(fd.bad_lock) |->
               <<"point", fd.gps_lst[fd.bad_lock[k] + 1], fd.gps_diff[fd.bad_lock[k] + 1]>>]
         \o <<(<<"stars">>)>>

\* the copy of one interval (lines 388-393): pdiff, where the words come
\* from, the slice of data_array they go to, and whether the assignment
\* succeeds (the bytes are whole words, as many as the slice holds or one)
CopyOf(raw, df, gps_lst, n_data, ll) ==
  LET kk == gps_lst[ll + 1]
      pdiff == ((gps_lst[ll + 2] - (kk + StampLen)) - df * 4) \div 4
      src == SliceBounds(Len(raw), kk + StampLen, gps_lst[ll + 2])
      dst == SliceBounds(n_data, ll * df, (ll + 1) * df + pdiff)
      nbytes == src.stop - src.start
  IN  [kk |-> kk, pdiff |-> pdiff, src |-> src.start, words |-> nbytes \div 4,
       from |-> dst.start, to |-> dst.stop,
       ok |-> /\ nbytes % 4 = 0
              /\ (nbytes \div 4 = dst.stop - dst.start \/ nbytes \div 4 = 1)]

RECURSIVE SumSeq(_)
SumSeq(q) == IF Len(q) = 0 THEN 0 ELSE Head(q) + SumSeq(Tail(q))

\* gps_lst = gps_lst[bmin:bmax], taken only if some interval is bad
\* (lines 365-374)
TrimmedLst(fd) ==
  IF fd.bad_interval = {} THEN fd.gps_lst ELSE Slice(fd.gps_lst, fd.bmin, fd.bmax)

\* the copies of "for ll, kk in enumerate(gps_lst[0:-1])" (lines 387-397)
CopiesOf(raw, df, gps_lst) ==
  [k \in 1..(IF Len(gps_lst) = 0 THEN 0 ELSE Len(gps_lst) - 1) |->
     CopyOf(raw, df, gps_lst, (Len(gps_lst) + 1) * df, k - 1)]

\* data_array after the copies: each position holds the word the last copy
\* over it put there, as float32, or the 0 it started with
DataArray(raw, copies, n_data) ==
  LET cover(p) == {k \in 1..Len(copies) :
                     copies[k].ok /\ copies[k].from <= p /\ p < copies[k].to}
  IN  [i \in 1..n_data |->
         IF cover(i - 1) = {} THEN 0
         ELSE LET c == copies[MaxOf(cover(i - 1))]
                  at == c.src + 4 * (IF c.words = 1 THEN 0 ELSE i - 1 - c.from)
              IN  F32Round(UnpackI32(SubSeq(raw, at + 1, at + 4)))]

\* the copies whose assignment raised ValueError and whose handler
\* (gfail, gfind = self.get_gps_stamp(kk), line 395) raised IndexError
BrokenCopies(raw, copies) ==
  {k \in 1..Len(copies) :
     ~copies[k].ok /\ GetGpsStamp(raw, copies[k].kk).kind = "IndexError"}

\* the lines logged from "Found ..." on (lines 376-404, 432-446)
FinishLog(num_samples, df, off_by, date_time) ==
  <<(<<"Found", num_samples, df>>)>>
    \o (IF off_by # 0 THEN <<(<<"off by", off_by>>)>> ELSE <<>>)
    \o (IF Len(date_time) > 0
        THEN <<(<<"Starting time", date_time[1]>>)>>
        ELSE <<(<<"No quality data was collected">>)>>)

\* read_3d from the copies on (lines 386-446)
Read3dStore(f, z, fd, gps_lst, copies, broken) ==
  LET num_samples == Len(gps_lst)
      sample_diff_lst == z.sample_diff_lst \o [k \in 1..Len(copies) |-> copies[k].pdiff]
      gps_time == Slice(fd.time, fd.bmin, fd.bmax)
      date_time == [gg \in 1..Len(gps_time) |-> GetDateTime(z.gps_week, gps_time[gg])]
  IN  IF broken # {}
      THEN Failed([z EXCEPT
                     !.found = fd,
                     !.log_lines = @ \o LockLog(fd) \o <<(<<"Found", num_samples, z.df>>)>>,
                     !.sample_diff_lst =
                        SubSeq(sample_diff_lst, 1,
                               Len(z.sample_diff_lst)
                                 + (CHOOSE k \in broken : \A o \in broken : k <= o))],
                  "IndexError")
      ELSE [z EXCEPT
              !.phase = "done",
              !.found = fd,
              !.log_lines = @ \o LockLog(fd)
                              \o FinishLog(num_samples, z.df, SumSeq(sample_diff_lst), date_time),
              !.sample_diff_lst = sample_diff_lst,
              !.time_series = SelectSeq(DataArray(f.raw, copies, (num_samples + 1) * z.df),
                                        LAMBDA x : x # 0),
              !.gps_dict = [gps |-> Slice(@.gps, fd.bmin, fd.bmax),
                            time |-> gps_time,
                            lat |-> Slice(@.lat, fd.bmin, fd.bmax),
                            lon |-> Slice(@.lon, fd.bmin, fd.bmax),
                            status |-> Slice(@.status, fd.bmin, fd.bmax),
                            gps_accuracy |-> Slice(@.gps_accuracy, fd.bmin, fd.bmax),
                            temperature |-> Slice(@.temperature, fd.bmin, fd.bmax)],
              !.gps_diff = Slice(fd.gps_diff, fd.bmin, fd.bmax),
              !.gps_time = gps_time,
              !.gps_lst = gps_lst,
              !.temperature = Slice(z.gps_dict.temperature, fd.bmin, fd.bmax),
              !.lat = Slice(z.gps_dict.lat, fd.bmin, fd.bmax),
              !.lon = Slice(z.gps_dict.lon, fd.bmin, fd.bmax),
              !.date_time = date_time,
              !.start_dt = IF Len(date_time) > 0 THEN date_time[1] ELSE <<>>,
              !.start_date = IF Len(date_time) > 0
                             THEN Split(date_time[1], COMMA)[1] ELSE <<>>,
              !.start_time = IF Len(date_time) > 0
                             THEN Split(date_time[1], COMMA)[2] ELSE <<>>]

\* read_3d from the trimmed gps_lst on (lines 376-446)
Read3dCopy(f, z, fd, gps_lst, copies) ==
  Read3dStore(f, z, fd, gps_lst, copies, BrokenCopies(f.raw, copies))

\* read_3d from dsamples on (lines 360-446); gps_lst[nn+1] with
\* nn = num_samples - 1 past the end of gps_lst raises IndexError
Read3dTrim(f, z, fd, gps_lst) ==
  IF fd.num_samples >= Len(fd.gps_lst)
  THEN Failed([z EXCEPT !.log_lines = @ \o LockLog(fd)], "IndexError")
  ELSE Read3dCopy(f, z, fd, gps_lst, CopiesOf(f.raw, z.df, gps_lst))

Read3dFound(f, z, fd) == Read3dTrim(f, z, fd, TrimmedLst(fd))

\* read_3d from the end of the stamp walk on (lines 328-446)
Read3dFinishOf(f, z) == Read3dFound(f, z, FoundOf(z))

\* ------------------------------------------------------------------ state

VARIABLES
  pc,       \* where the run stands
  zts,      \* the decoded channels handed to write_cache_file (zt_lst)
  aligned,  \* their aligned matrix, as check_time_series returns it (ts_array)
  zc,       \* the ZenCache instance: meta_data, ts, nav_data, cal_data, log_lines
  file,     \* the bytes of the cache file on disk
  layout,   \* per frame written: the offset of its leading length and the
            \* number of payload bytes written after its type
  fault,    \* the byte of the file changed after the write, if any
  err,      \* the exception that ended the last call, "none" if it returned
  tm,       \* a call of get_gps_time: its arguments and what it returned
  sc,       \* a call of get_gps_stamp_location: the buffer, the start offset
            \* and what it returned
  amb,      \* a marker followed by extra sentinel bytes: the bytes around
            \* it and, per number of extra bytes scanned so far, the result
  z3file,   \* a raw channel file: its bytes and its parsed header
  z3,       \* the Zen3D instance reading it, with the locals of read_3d
  al,       \* the channels given to check_sampling_rate and check_time_series
            \* and what the calls returned
  cs,       \* a call of compute_schedule_start: its arguments and its result
  gs        \* a call of get_gps_stamp: the buffer, the offset and the result

cacheVars == <<pc, zts, aligned, zc, file, layout, fault, err>>
zenVars == <<tm, sc, amb, z3file, z3, al, cs, gs>>
vars == <<cacheVars, zenVars>>

\* the parts of the state a specification does not use
CacheIdle ==
  /\ pc = "off"
  /\ zts = <<>> /\ aligned = <<>> /\ zc = <<>> /\ file = <<>> /\ layout = <<>>
  /\ fault = <<>> /\ err = "none"
TimeIdle == tm = <<>>
ScanIdle == sc = <<>>
AmbiguityIdle == amb = <<>>
Read3dIdle == z3file = <<>> /\ z3 = <<>>
AlignIdle == al = <<>>
ScheduleIdle == cs = <<>>
StampIdle == gs = <<>>

\* ---- the inputs of the container codec

\* sample values: inside the 32-bit range (the smallest of the range and one
\* above 2.14e9 among them) and outside it (2^31 and -3000000000)
IntMax == 2147483647
IntMin == -2147483647 - 1
InRangeSamples == {FromInt(-1), FromInt(IntMin), FromInt(2145000000)}
OutOfRangeSamples == {Num(32768, 0), Num(-45777, 41472)}
Samples == InRangeSamples \cup OutOfRangeSamples

Date0 == Enc(<<"2", "0", "1", "3", "-", "0", "6", "-", "1", "1">>)
Time0 == Enc(<<"1", "0", ":", "5", "3", ":", "2", "3">>)
ZtHX == Zt(Enc(<<"h", "x">>), Enc(<<"1">>), Enc(<<"1", "0", "0">>), Enc(<<"A", "1", "B", "2">>),
           Enc(<<"2", "2">>), 256, Date0, Time0)
ZtEY == Zt(Enc(<<"e", "y">>), Enc(<<"5">>), Enc(<<"5", "0">>), Enc(<<"C", "3", "D", "4">>),
           Enc(<<"2", "2">>), 256, Date0, Time0)
ZtHZ == Zt(Enc(<<"h", "z">>), Enc(<<"3">>), Enc(<<"0">>), Enc(<<"E", "5", "F", "6">>),
           Enc(<<"2", "2">>), 256, Date0, Time0)
\* the channel files of a station, in the two orders they are merged in
Surveys == {<<ZtHX, ZtEY, ZtHZ>>, <<ZtEY, ZtHZ, ZtHX>>}

Shapes ==
  {s \in (0..MaxRows) \X (1..MaxChn) : s[1] * s[2] <= MaxCells}

NoFault == [frame |-> 0, byte |-> 0, was |-> 0, now |-> 0]

\* ZenCache.__init__
NewZenCache ==
  [meta_data |-> InitMetaData, ts |-> <<>>, nav_data |-> <<>>, cal_data |-> <<>>, log_lines |-> <<>>]

\* a fresh instance and the channels to merge, their values any of Samples
InitCache ==
  /\ pc = "new"
  /\ \E s \in Shapes, sv \in Surveys :
        /\ zts = SubSeq(sv, 1, s[2])
        /\ aligned \in [1..s[1] -> [1..s[2] -> Samples]]
  /\ zc = NewZenCache
  /\ file = <<>>
  /\ layout = <<>>
  /\ fault = NoFault
  /\ err = "none"
  /\ TimeIdle /\ ScanIdle /\ AmbiguityIdle /\ Read3dIdle
  /\ AlignIdle /\ ScheduleIdle /\ StampIdle

\* the same with sample values of the 32-bit range only and the channels in
\* one order
IntegritySamples == {FromInt(-1), FromInt(IntMax)}
InitIntegrity ==
  /\ pc = "new"
  /\ \E s \in Shapes :
        /\ zts = SubSeq(<<ZtHX, ZtEY, ZtHZ>>, 1, s[2])
        /\ aligned \in [1..s[1] -> [1..s[2] -> IntegritySamples]]
  /\ zc = NewZenCache
  /\ file = <<>>
  /\ layout = <<>>
  /\ fault = NoFault
  /\ err = "none"
  /\ TimeIdle /\ ScanIdle /\ AmbiguityIdle /\ Read3dIdle
  /\ AlignIdle /\ ScheduleIdle /\ StampIdle

\* ---- write_cache_file, from the decoded and aligned channels on

\* the frames in the order written
FramesOf(md, m, ts_len, n_fn) ==
  <<NavFrame, MetaFrame(md), CalFrame(n_fn), TsFrame(m, ts_len, n_fn)>>

\* the framing bytes around a payload: length, flag, type and length again
FramingBytes == 4 + 4 + 2 + 4

LayoutOf(frames) ==
  [i \in 1..Len(frames) |->
     [at |-> Len(Join(SubSeq(frames, 1, i - 1))),
      payload |-> Len(frames[i]) - FramingBytes]]

\* write_cache_file of the instance zc0 for the channels zt_lst and their
\* aligned matrix m: the instance and the file after the call
WriteCacheOf(zc0, zt_lst, m) ==
  LET n_fn == Len(zt_lst)
      ts_len == Len(m)
      md == [FillMetaAll(zc0.meta_data, zt_lst)
               EXCEPT ![K_TS_NPNT] = <<COMMA>> \o Digits(ts_len)]
      frames == FramesOf(md, m, ts_len, n_fn)
  IN  [zc |-> [zc0 EXCEPT !.meta_data = md,
                          !.ts = m,
                          !.log_lines = @ \o Join([zz \in 1..ts_len |->
                                                     RowLog(m[zz], zz - 1)])
                                          \o SavedLog],
       file |-> Join(frames),
       layout |-> LayoutOf(frames)]

WriteCacheFile ==
  /\ pc = "new"
  /\ \A i \in 1..Len(zts) : zts[i].df \in LowpassRates
  /\ \E w \in {WriteCacheOf(zc, zts, aligned)} :
        /\ zc' = w.zc
        /\ file' = w.file
        /\ layout' = w.layout
  /\ err' = "none"
  /\ pc' = "written"
  /\ UNCHANGED <<zts, aligned, fault, zenVars>>

\* ---- the file damaged on disk: one byte of one frame's trailing length

\* what a changed byte differs by
ByteChanges == {1, 128}

TrailerAt(f) == layout[f].at + CacheStampLen + layout[f].payload

CorruptTrailer ==
  /\ pc = "written"
  /\ fault = NoFault
  /\ \E f \in 1..Len(layout), b \in 0..3, d \in ByteChanges :
        \E at \in {TrailerAt(f) + b} :
           /\ file' = [file EXCEPT ![at + 1] = (@ + d) % 256]
           /\ fault' = [frame |-> f, byte |-> b,
                        was |-> file[at + 1], now |-> (file[at + 1] + d) % 256]
  /\ UNCHANGED <<pc, zts, aligned, zc, layout, err, zenVars>>

\* ---- read_cache

ReadCache ==
  /\ pc = "written"
  /\ \E r \in {ReadCacheOf(file, zc @@ [err |-> "none"])} :
        /\ zc' = [k \in DOMAIN zc |-> r[k]]
        /\ err' = r.err
  /\ pc' = "read"
  /\ UNCHANGED <<zts, aligned, file, layout, fault, zenVars>>

\* ------------------------------------------------- the container codec

InRange(m) == \A zz \in 1..Len(m) : \A nn \in 1..Len(m[zz]) : InInt32(m[zz][nn])

\* the 32-bit word of the file at offset at
WordAt(at) == UnpackI32(Slice(file, at, at + 4))

\* the word stored in the time-series frame for row zz, channel nn (from 1)
StoredWord(zz, nn) ==
  WordAt(layout[4].at + CacheStampLen + 4 * ((zz - 1) * Len(zts) + (nn - 1)))

\* C1: a matrix of values of the signed 32-bit range, written by a fresh
\* instance and read back, comes back with the same shape, values and order,
\* and the recovered CH.CMP list has one entry per channel
C1_RoundTrip ==
  (pc = "read" /\ fault = NoFault /\ InRange(aligned))
    => /\ err = "none"
       /\ zc.ts = aligned
       /\ Len(zc.meta_data[K_CH_CMP]) = Len(zts)

\* two rows of two channels, all values different in a row and between the
\* rows, the smallest 32-bit value among them, read back
C1_Witness ==
  /\ pc = "read" /\ err = "none"
  /\ Len(zts) = 2 /\ Len(aligned) = 2
  /\ InRange(aligned)
  /\ aligned[1][1] # aligned[1][2] /\ aligned[1] # aligned[2]
  /\ aligned[2][1] = FromInt(IntMin)
  /\ zc.ts = aligned
  /\ Len(zc.meta_data[K_CH_CMP]) = 2

\* C2: a written file with one byte of one frame's trailing length changed
\* makes read_cache raise IOError; it never returns
C2_Integrity ==
  (pc = "read" /\ fault # NoFault) => err = "IOError"

\* the highest byte of the time-series frame's trailing length changed, two
\* channels of two rows, and the read ended by IOError
C2_Witness ==
  /\ pc = "read" /\ err = "IOError"
  /\ fault.frame = 4 /\ fault.byte = 3 /\ fault.was # fault.now
  /\ Len(zts) = 2 /\ Len(aligned) = 2

\* C3: in a written file each of the four frames has its trailing length
\* equal to its leading length, both the number of payload bytes written
\* plus 2, and the frames fill the file
C3_FrameLengths ==
  pc # "new" =>
    /\ Len(layout) = 4
    /\ layout[1].at = 0
    /\ \A f \in 1..4 :
         /\ WordAt(layout[f].at) = layout[f].payload + 2
         /\ WordAt(TrailerAt(f)) = layout[f].payload + 2
         /\ TrailerAt(f) + 4 = IF f < 4 THEN layout[f + 1].at ELSE Len(file)

\* a file written with one row through the value-by-value branch (the first
\* row holds a value outside the 32-bit range) and one row packed whole
C3_Witness ==
  /\ pc = "written"
  /\ Len(aligned) = 2 /\ Len(zts) = 2
  /\ RowFails(aligned[1]) /\ ~RowFails(aligned[2])
  /\ WordAt(layout[4].at) = 18
  /\ WordAt(TrailerAt(4)) = 18

\* C4: as the claim states it: a value above the 32-bit range is stored as the
\* largest positive value, one below it as the largest negative value, each
\* is logged, and a value within the range is stored unchanged
C4_ClampToMaxMagnitude ==
  pc = "written" =>
    \A zz \in 1..Len(aligned) : \A nn \in 1..Len(zts) :
      LET x == aligned[zz][nn]
      IN  /\ InInt32(x) => StoredWord(zz, nn) = ToInt(x)
          /\ (~InInt32(x) /\ ~Negative(x)) => StoredWord(zz, nn) = IntMax
          /\ (~InInt32(x) /\ Negative(x)) => StoredWord(zz, nn) \in {IntMin, -IntMax}
          /\ ~InInt32(x) =>
               \E k \in 1..Len(zc.log_lines) : zc.log_lines[k] = <<"clip", nn - 1, zz - 1>>

\* the codec alone: a file is written and read back
NextCache == WriteCacheFile \/ ReadCache

SpecCache == InitCache /\ [][NextCache]_vars

\* the codec and a damaged file: written, one trailing length changed, read
NextIntegrity == WriteCacheFile \/ CorruptTrailer \/ ReadCache

SpecIntegrity == InitIntegrity /\ [][NextIntegrity]_vars

\* ------------------------------------------------------------ get_gps_time

\* most the relative week passed to get_gps_time
MaxWeek == 1

\* raw counters, in 1024ths of a second: around zero, around the week
\* length and around two week lengths, with and without a fraction, and
\* negative ones
NearSeconds == {0, 1, WeekLen - 1, WeekLen, WeekLen + 1, 2 * WeekLen, 2 * WeekLen + 1}
Fractions == {0, 1, 512, 1000, 1023}
Counters == {s * 1024 + f : s \in NearSeconds, f \in Fractions} \cup {-1, -1024}

InitTime ==
  /\ tm \in [phase : {"new"}, gps_int : Counters, gps_week : 0..MaxWeek,
             out : {[sec |-> 0, ms |-> 0, gps_week |-> 0]}]
  /\ CacheIdle /\ ScanIdle /\ AmbiguityIdle /\ Read3dIdle
  /\ AlignIdle /\ ScheduleIdle /\ StampIdle

CallGetGpsTime ==
  /\ tm.phase = "new"
  /\ tm' = [tm EXCEPT !.phase = "returned", !.out = GetGpsTime(tm.gps_int, tm.gps_week)]
  /\ UNCHANGED <<cacheVars, sc, amb, z3file, z3, al, cs, gs>>

NextTime == CallGetGpsTime

SpecTime == InitTime /\ [][NextTime]_vars

\* C5 as the claim states it: at a counter of exactly 604800 * 1024 the week
\* is incremented and the seconds returned are zero
C5_BoundaryWraps ==
  (tm.phase = "returned" /\ tm.gps_int = WeekLen * 1024)
    => /\ tm.out.gps_week = tm.gps_week + 1
       /\ tm.out.sec = 0 /\ tm.out.ms = 0

\* C5, amended: at a counter of exactly 604800 * 1024 get_gps_time returns
\* 604800.0 seconds and leaves the week as it was given: the test is
\* "greater than", so nothing is subtracted at the boundary itself
C5_BoundaryKept ==
  (tm.phase = "returned" /\ tm.gps_int = WeekLen * 1024)
    => /\ tm.out.gps_week = tm.gps_week
       /\ tm.out.sec = WeekLen /\ tm.out.ms = 0

C5_Witness ==
  /\ tm.phase = "returned" /\ tm.gps_int = WeekLen * 1024 /\ tm.gps_week = 0
  /\ tm.out.sec = WeekLen

\* C6 as the claim states it: a counter above the week length gives the
\* counter's seconds less one week length, the week advanced by one; a
\* counter at or below it gives the seconds unwrapped
C6_WeekSubtracted ==
  tm.phase = "returned" =>
    IF tm.gps_int > WeekLen * 1024
    THEN /\ tm.out.sec = (tm.gps_int \div 1024) - WeekLen
         /\ tm.out.gps_week = tm.gps_week + 1
    ELSE tm.out.sec = tm.gps_int \div 1024

\* C6, amended: for a counter above the week length get_gps_time subtracts
\* one week length and adds (gps_week + 1) week lengths back, so that with
\* the default gps_week = 0 the value returned is the unwrapped one,
\* floor(counter / 1024) + (counter mod 1024) / 1000, as it is for a counter
\* at or below the week length; the week is advanced in a local variable only
C6_WeekAddedBack ==
  tm.phase = "returned" =>
    /\ tm.out.ms = tm.gps_int % 1024
    /\ IF tm.gps_int > WeekLen * 1024
       THEN /\ tm.out.sec = (tm.gps_int \div 1024) - WeekLen + (tm.gps_week + 1) * WeekLen
            /\ tm.out.gps_week = tm.gps_week + 1
            /\ tm.gps_week = 0 => tm.out.sec = tm.gps_int \div 1024
       ELSE /\ tm.out.sec = tm.gps_int \div 1024
            /\ tm.out.gps_week = tm.gps_week

C6_Witness ==
  /\ tm.phase = "returned" /\ tm.gps_week = 0
  /\ tm.gps_int = (WeekLen + 1) * 1024 + 512
  /\ tm.out.sec = WeekLen + 1 /\ tm.out.ms = 512 /\ tm.out.gps_week = 1

\* -------------------------------------------------- get_gps_stamp_location

\* longest buffer scanned
MaxBuf == 8

RECURSIVE SeqsUpTo(_, _)
SeqsUpTo(S, n) ==
  IF n = 0 THEN {<<>>}
  ELSE LET shorter == SeqsUpTo(S, n - 1)
       IN  shorter \cup {Append(q, x) : q \in {r \in shorter : Len(r) = n - 1}, x \in S}

Buffers == SeqsUpTo({0, SENTINEL}, MaxBuf)

NoResult == [err |-> "none", gps_index |-> -1]

InitScan ==
  /\ \E raw \in Buffers :
       \E start \in {<<>>} \cup {<<k>> : k \in 0..Len(raw)} :
          sc = [phase |-> "new", raw |-> raw, start_index |-> start, out |-> NoResult]
  /\ CacheIdle /\ TimeIdle /\ AmbiguityIdle /\ Read3dIdle
  /\ AlignIdle /\ ScheduleIdle /\ StampIdle

CallGetGpsStampLocation ==
  /\ sc.phase = "new"
  /\ sc' = [sc EXCEPT !.phase = "returned",
                      !.out = GetGpsStampLocation(sc.raw, sc.start_index)]
  /\ UNCHANGED <<cacheVars, tm, amb, z3file, z3, al, cs, gs>>

NextScan == CallGetGpsStampLocation

SpecScan == InitScan /\ [][NextScan]_vars

\* the start offset as an integer
ScanFrom == IF sc.start_index = <<>> THEN 0 ELSE sc.start_index[1]

\* the offsets at or after the start where four sentinel bytes begin
MarkersFrom == {i \in ScanFrom..(Len(sc.raw) - 4) : IsStampAt(sc.raw, i)}

\* C8 as the claim states it: the call returns; if four consecutive sentinel
\* bytes begin at or after the start offset, it returns the offset of the
\* first such place advanced by at most four, and otherwise -1
C8_NextMarkerOrNotFound ==
  sc.phase = "returned" =>
    /\ sc.out.err = "none"
    /\ IF MarkersFrom = {}
       THEN sc.out.gps_index = -1
       ELSE \E i \in MarkersFrom :
              /\ \A j \in MarkersFrom : i <= j
              /\ sc.out.gps_index \in i..(i + 4)

\* ---- a marker followed by extra sentinel bytes

\* most extra sentinel bytes after the marker
MaxExtra == 5

Prefixes == SeqsUpTo({0, 1}, 2)
RealData == {<<0>>, <<0, 0>>, <<0, SENTINEL>>, <<1, 0>>}

RECURSIVE Repeat255(_)
Repeat255(k) == IF k = 0 THEN <<>> ELSE <<SENTINEL>> \o Repeat255(k - 1)

\* prefix, the marker, k extra sentinel bytes, the real data
AmbiguousBuffer(prefix, k, data) == prefix \o GpsStamp \o Repeat255(k) \o data

InitAmbiguity ==
  /\ \E prefix \in Prefixes, data \in RealData :
       amb = [prefix |-> prefix, data |-> data, resolved |-> <<>>]
  /\ CacheIdle /\ TimeIdle /\ ScanIdle /\ Read3dIdle
  /\ AlignIdle /\ ScheduleIdle /\ StampIdle

\* get_gps_stamp_location() on the buffer with k extra sentinel bytes
ScanWithExtra(k) ==
  /\ k \notin DOMAIN amb.resolved
  /\ amb' = [amb EXCEPT
       !.resolved = (k :> GetGpsStampLocation(
                            AmbiguousBuffer(amb.prefix, k, amb.data), <<>>)) @@ @]
  /\ UNCHANGED <<cacheVars, tm, sc, z3file, z3, al, cs, gs>>

NextAmbiguity == \E k \in 0..MaxExtra : ScanWithExtra(k)

SpecAmbiguity == InitAmbiguity /\ [][NextAmbiguity]_vars

\* the offset of the first byte of the real data, k extra bytes present
DataStart(k) == Len(amb.prefix) + Len(GpsStamp) + k

\* C7 as the claim states it: the offsets resolved for 1 to 4 extra sentinel
\* bytes after the same marker are all the same
C7_SameOffset ==
  \A a, b \in DOMAIN amb.resolved \cap 1..4 :
    amb.resolved[a].gps_index = amb.resolved[b].gps_index

\* C7, amended: with k extra sentinel bytes after the marker, k from 0 to 4,
\* get_gps_stamp_location resolves to the offset four bytes before the first
\* byte of the real data, which is k bytes after the start of the marker:
\* the offset moves with k
C7_FourBeforeData ==
  \A k \in DOMAIN amb.resolved \cap 0..4 :
    /\ amb.resolved[k].err = "none"
    /\ amb.resolved[k].gps_index + 4 = DataStart(k)
    /\ amb.resolved[k].gps_index = Len(amb.prefix) + k

C7_Witness ==
  /\ DOMAIN amb.resolved = 0..4
  /\ Len(amb.prefix) = 2
  /\ amb.resolved[1].gps_index = 3
  /\ amb.resolved[4].gps_index = 6

\* ------------------------------------------------------------------ read_3d

\* most stamps of a raw channel file
MaxStamps == 13
\* most leading intervals with a wrong number of samples
MaxLeadBad == 3

\* the header and metadata entries of the files read: 256 samples a second,
\* scheduled in GPS week 1744 for 2013-06-11 10:53:23
Hdr ==
  [df |-> 256, gps_week |-> 1744,
   schedule_date |-> Date0, schedule_time |-> Time0,
   serial |-> Enc(<<"A", "1", "B", "2">>), ch_number |-> Enc(<<"1">>),
   ch_cmp |-> Enc(<<"h", "x">>), ch_varasp |-> Enc(<<"1", "0", "0">>),
   rx_stn |-> Enc(<<"2", "2">>)]

\* the second of the GPS week the schedule starts at (Tuesday 10:53:23)
ScheduledSecond == 2 * 86400 + 10 * 3600 + 53 * 60 + 23

\* the text of the header and of the metadata: 512 bytes each, none a sentinel
HeaderText == Zeros(512 + 512, 32)

LatOk == <<195, 245, 40, 92, 143, 194, 229, 63>>
LonOk == <<143, 194, 245, 40, 92, 143, 0, 192>>
TemperatureOk == <<0, 0, 200, 65>>

\* the 36 bytes of a stamp whose raw time is counter
StampBytes(counter) ==
  GpsStamp \o PackI32(counter) \o LatOk \o LonOk \o PackI32(1) \o PackI32(3)
    \o TemperatureOk

\* a block: a stamp of the second sec, then nsamp sample words counting up
\* from first
BlockBytes(b) ==
  StampBytes(b.sec * 1024)
    \o [i \in 1..(4 * b.nsamp) |-> PackI32(b.first + ((i - 1) \div 4))[((i - 1) % 4) + 1]]

\* the seconds from the stamp of block j to the next one (blocks from 0): 0
\* after the block dup, 2 after the block gap, 1 otherwise
DeltaAfter(j, dup, gap) == IF j = dup THEN 0 ELSE IF j = gap THEN 2 ELSE 1

RECURSIVE SecondOf(_, _, _, _)
SecondOf(j, first_sec, dup, gap) ==
  IF j = 0 THEN first_sec
  ELSE SecondOf(j - 1, first_sec, dup, gap) + DeltaAfter(j - 1, dup, gap)

\* n blocks, the first lead of them with Df + dev samples
Blocks(n, first_sec, lead, dev, dup, gap) ==
  [k \in 1..n |->
     [sec |-> SecondOf(k - 1, first_sec, dup, gap),
      nsamp |-> IF k - 1 < lead THEN Hdr.df + dev ELSE Hdr.df,
      first |-> 1000 * (k - 1) + 1]]

RawOf(blocks, tail) ==
  HeaderText \o Join([k \in 1..Len(blocks) |-> BlockBytes(blocks[k])])
    \o SubSeq(StampBytes((blocks[Len(blocks)].sec + 1) * 1024), 1, tail)

\* the offset of the stamp of block j (from 0)
RECURSIVE StampOffset(_, _)
StampOffset(blocks, j) ==
  IF j = 0 THEN Len(HeaderText)
  ELSE StampOffset(blocks, j - 1) + StampLen + 4 * blocks[j].nsamp

\* the files read.  Files that start at the scheduled second and end with
\* the last block or with the first 20 bytes of one more stamp: MaxStamps
\* blocks, either all of Df samples or the first MaxLeadBad six samples
\* short or long, with a repeated second and a skipped second or neither;
\* MaxStamps blocks, fewer leading ones short or long; one block less.
\* Files that start two seconds before, one second after and 100 seconds
\* after the scheduled second.
Streams ==
  {[n |-> MaxStamps, first_sec |-> ScheduledSecond, lead |-> ld[1], dev |-> ld[2],
    dup |-> dup, gap |-> gap, tail |-> tail] :
     ld \in {<<0, 0>>, <<MaxLeadBad, -6>>, <<MaxLeadBad, 6>>},
     dup \in {-1, 4}, gap \in {-1, 7}, tail \in {0, 20}}
  \cup
  {[n |-> MaxStamps, first_sec |-> ScheduledSecond, lead |-> lead, dev |-> dev,
    dup |-> -1, gap |-> -1, tail |-> tail] :
     lead \in 1..(MaxLeadBad - 1), dev \in {-6, 6}, tail \in {0, 20}}
  \cup
  {[n |-> MaxStamps - 1, first_sec |-> ScheduledSecond, lead |-> 0, dev |-> 0,
    dup |-> -1, gap |-> -1, tail |-> tail] : tail \in {0, 20}}
  \cup
  {[n |-> MaxStamps, first_sec |-> ScheduledSecond + shift, lead |-> 0, dev |-> 0,
    dup |-> -1, gap |-> -1, tail |-> 0] : shift \in {-2, 1, 100}}

InitRead3d ==
  /\ \E st \in Streams :
       \E blocks \in {Blocks(st.n, st.first_sec, st.lead, st.dev, st.dup, st.gap)} :
          z3file = [raw |-> RawOf(blocks, st.tail), hdr |-> Hdr,
                    stream |-> st, blocks |-> blocks]
  /\ z3 = NewZen3D
  /\ CacheIdle /\ TimeIdle /\ ScanIdle /\ AmbiguityIdle
  /\ AlignIdle /\ ScheduleIdle /\ StampIdle

Read3dOpen ==
  /\ z3.phase = "new"
  /\ \E r \in {Read3dOpenOf(z3file, z3)} : z3' = r
  /\ UNCHANGED <<cacheVars, tm, sc, amb, z3file, al, cs, gs>>

MatchStep ==
  /\ z3.phase = "match"
  /\ MatchCond(z3)
  /\ \E r \in {MatchStepOf(z3file, z3)} : z3' = r
  /\ UNCHANGED <<cacheVars, tm, sc, amb, z3file, al, cs, gs>>

\* lines 303-309
RaiseZenGPSError ==
  /\ z3.phase = "match"
  /\ ~MatchCond(z3)
  /\ z3.time_stop >= z3.seconds_diff
  /\ z3' = Failed(z3, "ZenGPSError")
  /\ UNCHANGED <<cacheVars, tm, sc, amb, z3file, al, cs, gs>>

StartWalk ==
  /\ z3.phase = "match"
  /\ ~MatchCond(z3)
  /\ z3.time_stop < z3.seconds_diff
  /\ z3' = StartWalkOf(z3)
  /\ UNCHANGED <<cacheVars, tm, sc, amb, z3file, al, cs, gs>>

WalkStep ==
  /\ z3.phase = "walk"
  /\ z3.ii < z3.num_blocks - 1
  /\ \E r \in {WalkStepOf(z3file, z3)} : z3' = r
  /\ UNCHANGED <<cacheVars, tm, sc, amb, z3file, al, cs, gs>>

Read3dFinish ==
  /\ z3.phase = "walk"
  /\ z3.ii >= z3.num_blocks - 1
  /\ \E r \in {Read3dFinishOf(z3file, z3)} : z3' = r
  /\ UNCHANGED <<cacheVars, tm, sc, amb, z3file, al, cs, gs>>

NextRead3d ==
  \/ Read3dOpen \/ MatchStep \/ RaiseZenGPSError \/ StartWalk
  \/ WalkStep \/ Read3dFinish

SpecRead3d == InitRead3d /\ [][NextRead3d]_vars

\* ---- what a file holds, for stating what read_3d must decode from it

\* the sample words of block j (from 0), in file order
SamplesOf(blocks, j) == [p \in 1..blocks[j + 1].nsamp |-> blocks[j + 1].first + p - 1]

\* the sample words of the blocks from to upto
RECURSIVE SamplesFrom(_, _, _)
SamplesFrom(blocks, from, upto) ==
  IF from > upto THEN <<>>
  ELSE SamplesOf(blocks, from) \o SamplesFrom(blocks, from + 1, upto)

\* the stamp offsets logged as lock losses, in the order logged
LoggedPoints ==
  LET points == SelectSeq(z3.log_lines, LAMBDA e : e[1] = "point")
  IN  [k \in 1..Len(points) |-> points[k][2]]

\* the intervals of the file whose stamps are neither one second apart nor
\* at the same second, by the offset of the stamp that begins them
LockLosses ==
  LET st == z3file.stream
      lost == SelectSeq([j \in 1..(st.n - 1) |-> j - 1],
                        LAMBDA j : DeltaAfter(j, st.dup, st.gap) \notin {0, 1})
  IN  [k \in 1..Len(lost) |-> StampOffset(z3file.blocks, lost[k])]

IsSubSeq(part, whole) ==
  \E at \in 0..(Len(whole) - Len(part)) :
     SubSeq(whole, at + 1, at + Len(part)) = part

\* C9: after read_3d the lock losses logged are exactly the intervals of the
\* file whose time difference is neither 1 s nor 0, each logged with the
\* offset of the stamp that begins it, also when an interval of difference 0
\* precedes it; a file with one interval of 2 s and all others of 1 s logs
\* exactly one; and the two stamps and the samples of a lock-loss interval
\* stay in the decoded stream.
C9_LockLossEvents ==
  z3.phase = "done" =>
    LET st == z3file.stream IN
    /\ LoggedPoints = LockLosses
    /\ (st.gap >= 0 /\ st.dup < 0 => Len(LoggedPoints) = 1)
    /\ (st.gap >= 0 =>
          /\ \E i \in 1..(Len(z3.gps_lst) - 1) :
                /\ z3.gps_lst[i] = StampOffset(z3file.blocks, st.gap)
                /\ z3.gps_lst[i + 1] = StampOffset(z3file.blocks, st.gap + 1)
          /\ IsSubSeq(SamplesOf(z3file.blocks, st.gap), z3.time_series))

\* C10: when the only intervals of the file with more than 5 samples too
\* many or too few are its first k (1 <= k <= 10), read_3d drops the stamps
\* and the samples of exactly those k intervals: the decoded stream holds
\* every stamp from the k-th on with its time, latitude, longitude and
\* temperature, and every sample between those stamps, unchanged.
C10_LeadingTrim ==
  LET st == z3file.stream
      kept == [i \in 1..(st.n - st.lead) |-> st.lead + i - 1]
  IN  z3.phase = "done" /\ st.first_sec = ScheduledSecond /\ st.lead >= 1 =>
        /\ z3.gps_lst = [i \in 1..Len(kept) |-> StampOffset(z3file.blocks, kept[i])]
        /\ z3.gps_time = [i \in 1..Len(kept) |-> z3file.blocks[kept[i] + 1].sec]
        /\ Len(z3.lat) = Len(kept)
        /\ Len(z3.lon) = Len(kept)
        /\ Len(z3.temperature) = Len(kept)
        /\ z3.time_series = SamplesFrom(z3file.blocks, st.lead, st.n - 2)

(***************************************************************************)
(* ZenCache.check_sampling_rate and ZenCache.check_time_series, called by  *)
(* write_cache_file on the channels read_3d decoded.  A channel carries    *)
(* the attributes the two methods read or assign: df, ch_number, ch_cmp,   *)
(* time_series, gps_diff, gps_lst, date_time and gps_time.                 *)
(***************************************************************************)

\* most channels given to one call
MaxAlignChn == 3

MinOf(S) == CHOOSE x \in S : \A y \in S : x <= y

\* check_sampling_rate: false_test, the pairs (jj, ii) of tf_array that are
\* False, i.e. where np.in1d(df_lst, [df_lst[jj]])[ii] is False
FalseTest(zt_lst) ==
  {p \in (1..Len(zt_lst)) \X (1..Len(zt_lst)) : zt_lst[p[2]].df # zt_lst[p[1]].df}

\* 'Sampling rates ... Check file(s)' + zt_lst[false_test[0]]: the list is
\* indexed by an array, which is a TypeError for an array of several
\* elements; with one element it yields a Zen3D, which cannot be added to a
\* string.  The argument of IOError is never built.
MismatchMessage(zt_lst, false_test) == [err |-> "TypeError", args |-> <<>>]

\* check_sampling_rate(zt_lst): the exception it ends with, "none" if it
\* returns
CheckSamplingRateOf(zt_lst) ==
  IF FalseTest(zt_lst) # {}
  THEN MismatchMessage(zt_lst, FalseTest(zt_lst))
  ELSE [err |-> "none", args |-> <<>>]

\* st_lst: int(zt.date_time[0][-2:]) per channel
StLst(zt_lst) ==
  [i \in 1..Len(zt_lst) |-> ParseInt(Slice(zt_lst[i].date_time[1], -2, Len(zt_lst[i].date_time[1])))]

\* skip_dict: the seconds each channel starts before the latest start
SkipDict(st_lst) ==
  LET st_max == MaxOf({st_lst[i] : i \in 1..Len(st_lst)})
      time_max == {i \in 1..Len(st_lst) : st_lst[i] = st_max}
  IN  [i \in 1..Len(st_lst) |->
         IF Cardinality(time_max) # Len(st_lst) THEN st_max - st_lst[i] ELSE 0]

\* the assignments of lines 986 to 989 to a channel that skips skip seconds
SkipLeading(zt, skip) ==
  [zt EXCEPT !.time_series = Slice(@, skip * zt.df, Len(@)),
             !.gps_diff = Slice(@, skip, Len(@)),
             !.gps_lst = Slice(@, skip, Len(@)),
             !.date_time = Slice(@, skip, Len(@))]

\* the loop "change data by amount needed" for the first channel ii whose
\* skip is not 0: skip_points is a float (zt.df is one), which numpy either
\* takes as the start of a slice (float_index) or refuses with a TypeError;
\* line 990 then indexes the dict skip_dict with a slice, a TypeError
SkipFails(zt_lst, ii, skip, float_index) ==
  [zt_lst |-> IF float_index
              THEN [zt_lst EXCEPT ![ii] = SkipLeading(@, skip)] ELSE zt_lst,
   err |-> "TypeError", line |-> IF float_index THEN 990 ELSE 986]

\* the loop "trim the time series if needed" and the return value
TrimOf(zt_lst, ts_min) ==
  [zt_lst |-> [i \in 1..Len(zt_lst) |->
                 [zt_lst[i] EXCEPT !.time_series = Slice(@, 0, ts_min)]],
   ts_array |-> [r \in 1..ts_min |-> [c \in 1..Len(zt_lst) |-> zt_lst[c].time_series[r]]],
   ts_min |-> ts_min,
   log_lines |-> Join([i \in 1..Len(zt_lst) |->
                   << <<"TS length", zt_lst[i].ch_number, zt_lst[i].ch_cmp, ts_min>>,
                      <<"T0", zt_lst[i].date_time[1]>> >>])]

\* check_time_series(zt_lst) with the skips of skip_dict
CheckTimeSeriesSkip(a, skip_dict, float_index) ==
  IF \E i \in 1..Len(a.zt_lst) : skip_dict[i] # 0
  THEN LET ii == MinOf({i \in 1..Len(a.zt_lst) : skip_dict[i] # 0})
           f == SkipFails(a.zt_lst, ii, skip_dict[ii], float_index)
       IN  [a EXCEPT !.pc = "failed", !.err = f.err, !.line = f.line, !.zt_lst = f.zt_lst]
  ELSE LET t == TrimOf(a.zt_lst, MinOf({Len(a.zt_lst[i].time_series) : i \in 1..Len(a.zt_lst)}))
       IN  [a EXCEPT !.pc = "aligned", !.zt_lst = t.zt_lst, !.ts_array = t.ts_array,
                     !.ts_min = t.ts_min, !.log_lines = @ \o t.log_lines]

CheckTimeSeriesOf(a, float_index) ==
  CheckTimeSeriesSkip(a, SkipDict(StLst(a.zt_lst)), float_index)

\* ---- the channels given

\* the sampling rates of the channels
AlignRates == {256, 1024}
\* the seconds of the minute the channels start at
AlignSeconds == {3, 5}
\* the numbers of stamps decoded per channel
AlignStamps == {3, 4}

\* channel c as read_3d leaves it for a file sampled at df whose first stamp
\* is at second sec of the minute 10:53 and that holds n stamps one second
\* apart; its samples are numbered from 100000 * c + 1
AlignChannel(c, df, sec, n) ==
  [ch_number |-> c, ch_cmp |-> <<"hx", "hy", "ex", "ey", "hz">>[c], df |-> df,
   time_series |-> [p \in 1..((n - 1) * df) |-> 100000 * c + p],
   gps_diff |-> [i \in 1..(n - 1) |-> 1],
   gps_lst |-> [i \in 1..n |-> 512 + 512 + (i - 1) * (StampLen + 4 * df)],
   gps_time |-> [i \in 1..n |-> ScheduledSecond - 7 + sec + i - 1],
   date_time |-> [i \in 1..n |-> GetDateTime(Hdr.gps_week, ScheduledSecond - 7 + sec + i - 1)]]

InitAlign ==
  /\ CacheIdle /\ TimeIdle /\ ScanIdle /\ AmbiguityIdle /\ Read3dIdle
  /\ ScheduleIdle /\ StampIdle
  /\ \E n \in 1..MaxAlignChn :
       \E secs \in [1..n -> AlignSeconds], stamps \in [1..n -> AlignStamps],
          odd \in 0..n :
         al = [pc |-> "new", err |-> "none", args |-> <<>>, line |-> 0,
               zt_lst |-> [c \in 1..n |->
                  AlignChannel(c, IF c = odd THEN 1024 ELSE 256, secs[c], stamps[c])],
               given |-> [c \in 1..n |->
                  AlignChannel(c, IF c = odd THEN 1024 ELSE 256, secs[c], stamps[c])],
               ts_array |-> <<>>, ts_min |-> 0, log_lines |-> <<>>]

\* self.check_sampling_rate(zt_lst) returns
SamplingRateOk ==
  /\ al.pc = "new"
  /\ CheckSamplingRateOf(al.zt_lst).err = "none"
  /\ al' = [al EXCEPT !.pc = "rate checked"]
  /\ UNCHANGED <<cacheVars, tm, sc, amb, z3file, z3, cs, gs>>

\* self.check_sampling_rate(zt_lst) raises
SamplingRateRaises ==
  /\ al.pc = "new"
  /\ CheckSamplingRateOf(al.zt_lst).err # "none"
  /\ al' = [al EXCEPT !.pc = "failed", !.err = CheckSamplingRateOf(al.zt_lst).err,
                       !.args = CheckSamplingRateOf(al.zt_lst).args, !.line = 958]
  /\ UNCHANGED <<cacheVars, tm, sc, amb, z3file, z3, cs, gs>>

\* self.check_time_series(zt_lst)
CheckTimeSeries ==
  /\ al.pc = "rate checked"
  /\ \E float_index \in BOOLEAN :
       \E r \in {CheckTimeSeriesOf(al, float_index)} : al' = r
  /\ UNCHANGED <<cacheVars, tm, sc, amb, z3file, z3, cs, gs>>

NextAlign == SamplingRateOk \/ SamplingRateRaises \/ CheckTimeSeries

SpecAlign == InitAlign /\ [][NextAlign]_vars

\* C11: three channels of one sampling rate whose first stamps are at
\* seconds 5, 3 and 3 are aligned by check_time_series: it returns, 2 seconds
\* of leading samples are gone from the first channel, and the matrix
\* returned has one column per channel and as many rows as the shortest
\* remaining channel has samples.
C11_Alignment ==
  al.pc \in {"aligned", "failed"} /\ al.line # 958
    /\ Len(al.given) = 3 /\ StLst(al.given) = <<5, 3, 3>> =>
      /\ al.pc = "aligned"
      /\ Len(al.zt_lst[1].time_series) <= Len(al.given[1].time_series) - 2 * al.given[1].df
      /\ al.ts_min = MinOf({Len(al.zt_lst[c].time_series) : c \in 1..3})
      /\ Len(al.ts_array) = al.ts_min
      /\ \A r \in 1..Len(al.ts_array) : Len(al.ts_array[r]) = 3

\* C12: check_sampling_rate ends with an IOError that names a channel of
\* the call exactly when two of the channels given differ in sampling rate;
\* when all have the same rate it returns and leaves every channel as given.
C12_RateMismatch ==
  al.pc = "rate checked" \/ al.line = 958 =>
    LET differ == \E i, j \in 1..Len(al.given) : al.given[i].df # al.given[j].df
    IN  /\ differ <=> (al.pc = "failed" /\ al.err = "IOError" /\ al.args # <<>>)
        /\ ~differ => al.pc = "rate checked" /\ al.zt_lst = al.given

(***************************************************************************)
(* read_3d on files whose first stamp is some seconds before or after the  *)
(* scheduled start: the start-matching loop (lines 270 to 309).            *)
(***************************************************************************)

\* the seconds from the scheduled start to the first stamp of the file
StartShifts == (0 - SecondsDiff - 1)..(SecondsDiff + 2)

\* files of MaxStamps blocks of Df samples whose first stamp is shift
\* seconds after the scheduled second, with all stamps one second apart or
\* with one second skipped after the block SecondsDiff - 1
StartStreams ==
  {[n |-> MaxStamps, first_sec |-> ScheduledSecond + shift, lead |-> 0, dev |-> 0,
    dup |-> -1, gap |-> gap, tail |-> 0] :
     shift \in StartShifts, gap \in {-1, SecondsDiff - 1}}

InitStart ==
  /\ \E st \in StartStreams :
       \E blocks \in {Blocks(st.n, st.first_sec, st.lead, st.dev, st.dup, st.gap)} :
          z3file = [raw |-> RawOf(blocks, st.tail), hdr |-> Hdr,
                    stream |-> st, blocks |-> blocks]
  /\ z3 = NewZen3D
  /\ CacheIdle /\ TimeIdle /\ ScanIdle /\ AmbiguityIdle
  /\ AlignIdle /\ ScheduleIdle /\ StampIdle

SpecStart == InitStart /\ [][NextRead3d]_vars

\* the stamp the start-matching loop examined last
ExaminedStamp == DecodeStamp(z3file.raw, z3.gps_lst[1])

\* C13: read_3d raises the GPS timing error only when the stamp examined
\* last does not match the expected start; and when the start-matching loop
\* ends on a stamp whose time equals the expected start, the stamp walk
\* starts with that stamp as the first stamp.
C13_StartMatch ==
  /\ z3.phase = "failed" /\ z3.err = "ZenGPSError" => z3.start_test # z3.start_dt
  /\ z3.phase = "walk" /\ z3.ii = z3.s1 /\ z3.start_test = z3.start_dt =>
       /\ ExaminedStamp.kind = "stamp"
       /\ GetDateTime(z3.gps_week, ExaminedStamp.info.time) = z3.start_dt
       /\ z3.gps_dict.time[1] = ExaminedStamp.info.time

\* C20: during the stamp walk of read_3d the offsets recorded in gps_lst,
\* the matched first stamp at their head, are strictly increasing (so every
\* one lies after the matched stamp and none is recorded twice), and no
\* offset is recorded after a slot the scanner left empty.
C20_ForwardWalk ==
  z3.phase = "walk" =>
    \A i, j \in 1..Len(z3.gps_lst) :
       i < j /\ z3.gps_lst[j] # 0 => z3.gps_lst[i] # 0 /\ z3.gps_lst[i] < z3.gps_lst[j]

(***************************************************************************)
(* read_cache of a cache file whose time-series frame holds any number of  *)
(* 32-bit samples, whatever the number of channels its metadata lists.     *)
(***************************************************************************)

\* most samples in the time-series frame of such a file
MaxFlat == 7

\* the values of the samples: consecutive from one of these
FlatStarts == {-3, 1000, IntMax - MaxFlat}

\* a time-series frame of the samples flat, one after the other
FlatFrame(flat) ==
  Frame(4 * Len(flat) + 2, TypeTs, Join([i \in 1..Len(flat) |-> PackI32(flat[i])]),
        4 * Len(flat) + 2)

\* the frames of a cache file with the metadata of the channels zt_lst
FlatFramesOf(zt_lst, flat) ==
  <<NavFrame, MetaFrame(FillMetaAll(InitMetaData, zt_lst)), CalFrame(Len(zt_lst)),
    FlatFrame(flat)>>

\* a fresh instance and such a file on disk
InitShape ==
  /\ pc = "written"
  /\ \E sv \in Surveys, n_fn \in 1..3, n \in 0..MaxFlat, v \in FlatStarts :
        /\ zts = SubSeq(sv, 1, n_fn)
        /\ aligned = [i \in 1..n |-> v + i - 1]
        /\ file = Join(FlatFramesOf(SubSeq(sv, 1, n_fn), [i \in 1..n |-> v + i - 1]))
        /\ layout = LayoutOf(FlatFramesOf(SubSeq(sv, 1, n_fn), [i \in 1..n |-> v + i - 1]))
  /\ zc = NewZenCache
  /\ fault = NoFault
  /\ err = "none"
  /\ TimeIdle /\ ScanIdle /\ AmbiguityIdle /\ Read3dIdle
  /\ AlignIdle /\ ScheduleIdle /\ StampIdle

NextShape == ReadCache

SpecShape == InitShape /\ [][NextShape]_vars

\* C14: read_cache of a file whose metadata lists k channel components and
\* whose time-series frame holds n samples fails with an error when k does
\* not divide n, and otherwise leaves ts as n / k rows of k samples, row
\* after row in the order of the file.
C14_ReshapeOrFail ==
  pc = "read" =>
    LET n == Len(aligned)
        k == Len(zc.meta_data[K_CH_CMP])
    IN  /\ k = Len(zts)
        /\ n % k # 0 => err = "ValueError"
        /\ n % k = 0 =>
              /\ err = "none"
              /\ Len(zc.ts) = n \div k
              /\ \A zz \in 1..Len(zc.ts) :
                    /\ Len(zc.ts[zz]) = k
                    /\ \A nn \in 1..k : zc.ts[zz][nn] = FromInt(aligned[(zz - 1) * k + nn])

\* seven samples under a metadata of two channels
C14_Witness ==
  /\ pc = "read" /\ err = "ValueError"
  /\ Len(aligned) = 7 /\ Len(zc.meta_data[K_CH_CMP]) = 2

(***************************************************************************)
(* Calls of compute_schedule_start(start_date, start_time).                *)
(***************************************************************************)

\* the scheduled dates: the first, the second and the last day of every
\* month of two years
ScheduleYears == {2013, 2014}
ScheduleDates ==
  {[y |-> y, m |-> m, d |-> d] :
     y \in ScheduleYears, m \in 1..12, d \in {1, 2}}
  \cup {[y |-> y, m |-> m, d |-> MonthDict[m]] : y \in ScheduleYears, m \in 1..12}

\* the scheduled times of day: around the leap-second offset after the
\* minute, the hour and midnight
ScheduleTimes ==
  {[h |-> h, mi |-> mi, s |-> s] :
     h \in {0, 1, 23}, mi \in {0, 1, 59},
     s \in {0, LeapSeconds - 1, LeapSeconds, 59}}

DateText(dt) == Pad(dt.y, 4) \o <<45>> \o Pad(dt.m, 2) \o <<45>> \o Pad(dt.d, 2)
TimeText(t) == Pad(t.h, 2) \o <<58>> \o Pad(t.mi, 2) \o <<58>> \o Pad(t.s, 2)

InitSchedule ==
  /\ \E dt \in ScheduleDates, t \in ScheduleTimes :
        cs = [pc |-> "new", date |-> dt, time |-> t,
              start_date |-> DateText(dt), start_time |-> TimeText(t),
              err |-> "none", ndate_time |-> <<>>]
  /\ CacheIdle /\ TimeIdle /\ ScanIdle /\ AmbiguityIdle /\ Read3dIdle
  /\ AlignIdle /\ StampIdle

CallComputeScheduleStart ==
  /\ cs.pc = "new"
  /\ \E r \in {ComputeScheduleStart(cs.start_date, cs.start_time)} :
        cs' = [cs EXCEPT !.pc = "called", !.err = r.err, !.ndate_time = r.ndate_time]
  /\ UNCHANGED <<cacheVars, tm, sc, amb, z3file, z3, al, gs>>

NextSchedule == CallComputeScheduleStart

SpecSchedule == InitSchedule /\ [][NextSchedule]_vars

\* the date and time n seconds (less than a day) before the time t of the
\* date dt, in a calendar whose months are as long as month_dict says
SecondsBefore(dt, t, n) ==
  LET sod == t.h * 3600 + t.mi * 60 + t.s - n
      back == sod < 0
      tod == IF back THEN sod + 86400 ELSE sod
      d1 == IF back THEN dt.d - 1 ELSE dt.d
      m1 == IF d1 = 0 THEN dt.m - 1 ELSE dt.m
      y == IF m1 = 0 THEN dt.y - 1 ELSE dt.y
      m == IF m1 = 0 THEN 12 ELSE m1
      d == IF d1 = 0 THEN MonthDict[m] ELSE d1
  IN  FormatDateTime(y, m, d, tod \div 3600, (tod % 3600) \div 60, tod % 60)

\* C15: for every scheduled date and time of day, compute_schedule_start
\* returns the date and time 16 seconds earlier, borrowing across minute,
\* hour, day and month (February of 28 days), also within 16 seconds after
\* midnight on the first day of a month, January included.
C15_SixteenSecondsEarlier ==
  cs.pc = "called" =>
    /\ cs.err = "none"
    /\ cs.ndate_time = SecondsBefore(cs.date, cs.time, LeapSeconds)

(***************************************************************************)
(* Calls of get_gps_stamp(gps_index), one step per decoded stamp and per   *)
(* pass of a while loop.  The call record holds the buffer, the offset     *)
(* given, the current gps_index and gps_info, the number of the while loop *)
(* the call is at, and for every re-scan the offset rejected, the offset   *)
(* the scan resumed at and the offset it found.                            *)
(***************************************************************************)

\* most stamps in a buffer
MaxStampSeq == 3

\* a temperature of 100 degrees, a latitude of 4 radians and one of 0.0001
TemperatureHot == <<0, 0, 200, 66>>
LatOver == <<0, 0, 0, 0, 0, 0, 16, 64>>
LatUnder == <<45, 67, 28, 235, 226, 54, 26, 63>>

\* what a stamp of a buffer is like: plausible, or implausible in one field
StampKinds == {"ok", "time", "temperature", "lat over", "lat under"}

\* the 36 bytes of the j-th stamp of a buffer, of the kind given
KindBytes(kind, j) ==
  GpsStamp
    \o PackI32(IF kind = "time" THEN IntMin + 1024 * j ELSE (ScheduledSecond + j) * 1024)
    \o (CASE kind = "lat over" -> LatOver [] kind = "lat under" -> LatUnder
           [] OTHER -> LatOk)
    \o LonOk \o PackI32(1) \o PackI32(3)
    \o (IF kind = "temperature" THEN TemperatureHot ELSE TemperatureOk)

\* the text before the first stamp and the two samples after every stamp
StampPrefix == Zeros(8, 32)
TwoSamples == PackI32(1) \o PackI32(2)

\* a buffer of the stamps of the kinds given, each followed by two
\* samples, and the first tail bytes of one more plausible stamp (none, its
\* marker alone, or 20 bytes)
StampBuffer(kinds, tail) ==
  StampPrefix
    \o Join([j \in 1..Len(kinds) |-> KindBytes(kinds[j], j) \o TwoSamples])
    \o SubSeq(KindBytes("ok", Len(kinds) + 1), 1, tail)

\* the offset of the j-th stamp (from 1) of such a buffer
KindOffset(j) == Len(StampPrefix) + (j - 1) * (StampLen + Len(TwoSamples))

InitStamp ==
  /\ \E n \in 1..MaxStampSeq :
       \E kinds \in [1..n -> StampKinds], tail \in {0, Len(GpsStamp), 20}, j \in 1..n :
         gs = [raw |-> StampBuffer(kinds, tail), kinds |-> kinds, tail |-> tail,
               given |-> KindOffset(j), gps_index |-> KindOffset(j),
               pc |-> "new", gate |-> 0, kind |-> "", info |-> <<>>,
               retries |-> <<>>]
  /\ CacheIdle /\ TimeIdle /\ ScanIdle /\ AmbiguityIdle /\ Read3dIdle
  /\ AlignIdle /\ ScheduleIdle

\* gps_info as decoded at gps_index: a short stamp is the ValueError that
\* ends the call with None
Decoded(g, gps_index) ==
  LET d == DecodeStamp(g.raw, gps_index)
  IN  IF d.kind = "short"
      THEN [g EXCEPT !.pc = "returned", !.kind = "none", !.info = <<>>,
                     !.gps_index = gps_index]
      ELSE [g EXCEPT !.pc = "gate", !.kind = d.kind, !.info = d.info,
                     !.gps_index = gps_index]

\* the condition of the current while loop; an empty gps_info compares as
\* false
GateOpen(g) == g.kind = "stamp" /\ GateFails(g.gate, g.info)

\* lines 556 to 559
StampDecode ==
  /\ gs.pc = "new"
  /\ gs' = [Decoded(gs, gs.gps_index) EXCEPT !.gate = 1]
  /\ UNCHANGED <<cacheVars, tm, sc, amb, z3file, z3, al, cs>>

\* the body of a while loop: the scan resumes 7 bytes on and the stamp
\* found is decoded
StampRetry ==
  /\ gs.pc = "gate" /\ gs.gate <= 5
  /\ GateOpen(gs)
  /\ \E loc \in {GetGpsStampLocation(gs.raw, <<gs.gps_index + 7>>)} :
        \E g \in {[gs EXCEPT !.retries =
                       Append(@, [rejected |-> gs.gps_index, start |-> gs.gps_index + 7,
                                  found |-> loc.gps_index, err |-> loc.err])]} :
          gs' = IF loc.err # "none"
                THEN [g EXCEPT !.pc = "raised", !.kind = loc.err, !.info = <<>>]
                ELSE Decoded(g, loc.gps_index)
  /\ UNCHANGED <<cacheVars, tm, sc, amb, z3file, z3, al, cs>>

\* the condition of a while loop is false: on to the next loop
StampPass ==
  /\ gs.pc = "gate" /\ gs.gate <= 5
  /\ ~GateOpen(gs)
  /\ gs' = [gs EXCEPT !.gate = @ + 1]
  /\ UNCHANGED <<cacheVars, tm, sc, amb, z3file, z3, al, cs>>

\* return gps_info, gps_index
StampReturn ==
  /\ gs.pc = "gate" /\ gs.gate > 5
  /\ gs' = [gs EXCEPT !.pc = "returned"]
  /\ UNCHANGED <<cacheVars, tm, sc, amb, z3file, z3, al, cs>>

NextStamp == StampDecode \/ StampRetry \/ StampPass \/ StampReturn

SpecStamp == InitStamp /\ [][NextStamp]_vars

\* C16: a stamp get_gps_stamp returns passes all five tests at once
\* (time not negative, status not negative, temperature within 80,
\* latitude within pi and not below 0.001 in magnitude), also one found by
\* re-scanning after a later test failed.
C16_AllGates ==
  gs.pc = "returned" /\ gs.kind = "stamp" =>
    \A gate \in 1..5 : ~GateFails(gate, gs.info)

\* the stamps of the buffer from the offset given on that are complete and
\* pass all five tests
ValidFromGiven ==
  {j \in 1..Len(gs.kinds) : KindOffset(j) >= gs.given /\ gs.kinds[j] = "ok"}

\* C17: every re-scan of get_gps_stamp resumes 7 bytes past the offset
\* rejected and finds a strictly larger offset, so that there are at most
\* as many re-scans as stamps in the buffer; a call ends with a failure
\* when no valid stamp lies between the offset given and the end of the
\* data; and no call returns a stamp located before the offset given.
C17_ForwardOnly ==
  /\ \A k \in 1..Len(gs.retries) :
        /\ gs.retries[k].start = gs.retries[k].rejected + 7
        /\ gs.retries[k].err = "none" => gs.retries[k].found > gs.retries[k].rejected
  /\ Len(gs.retries) <= Len(gs.kinds) + 1
  /\ gs.pc \in {"returned", "raised"} /\ ValidFromGiven = {} =>
        gs.kind \in {"none", "IndexError"}
  /\ gs.pc = "returned" /\ gs.kind \in {"stamp", "empty"} => gs.gps_index >= gs.given

(***************************************************************************)
(* read_3d on files long enough to have intervals outside the first and    *)
(* the last ten: intervals of too many or too few samples near the end     *)
(* and in the middle (lines 360 to 408).                                   *)
(***************************************************************************)

\* the stamps of such a file
LongStamps == 22

\* blocks whose stamps are one second apart from the second first_sec on,
\* the blocks of bad (counted from 0) with Df + dev samples
DriftBlocks(n, first_sec, bad, dev) ==
  [k \in 1..n |->
     [sec |-> first_sec + k - 1,
      nsamp |-> IF k - 1 \in bad THEN Hdr.df + dev ELSE Hdr.df,
      first |-> 1000 * (k - 1) + 1]]

\* the files.  From the scheduled second on: no bad interval; one or two
\* among the last ten; one in the middle; six samples too few or too many;
\* ending with the last block or with the first 20 bytes of one more
\* stamp.  Without bad interval, from one second and from 100 seconds
\* after the scheduled second on.
DriftStreams ==
  {[n |-> LongStamps, first_sec |-> ScheduledSecond, bad |-> bad, dev |-> dev,
    tail |-> tail] :
     bad \in {{}, {LongStamps - 3}, {LongStamps - 5, LongStamps - 3},
              {LongStamps \div 2}},
     dev \in {-6, 6}, tail \in {0, 20}}
  \cup
  {[n |-> LongStamps, first_sec |-> ScheduledSecond + shift, bad |-> {}, dev |-> 6,
    tail |-> 0] : shift \in {1, 100}}

InitDrift ==
  /\ \E st \in DriftStreams :
       \E blocks \in {DriftBlocks(st.n, st.first_sec, st.bad, st.dev)} :
          z3file = [raw |-> RawOf(blocks, st.tail), hdr |-> Hdr,
                    stream |-> st, blocks |-> blocks]
  /\ z3 = NewZen3D
  /\ CacheIdle /\ TimeIdle /\ ScanIdle /\ AmbiguityIdle
  /\ AlignIdle /\ ScheduleIdle /\ StampIdle

SpecDrift == InitDrift /\ [][NextRead3d]_vars

\* the stamps of the file (from 0) whose offsets read_3d kept
KeptStamps ==
  {j \in 0..(z3file.stream.n - 1) :
     \E i \in 1..Len(z3.gps_lst) : z3.gps_lst[i] = StampOffset(z3file.blocks, j)}

\* the bad intervals among the last ten, and those outside the first and
\* the last ten
TrailingBad == {j \in z3file.stream.bad : j > z3file.stream.n - 10}
MiddleBad == {j \in z3file.stream.bad : j > 10 /\ j <= z3file.stream.n - 10}

\* C18: when intervals among the last ten of the file are bad, read_3d
\* cuts the series at the earliest of them: no stamp after the one that
\* begins it is kept, so that no bad interval among the last ten is
\* retained.
C18_TrailingTrim ==
  z3.phase = "done" /\ TrailingBad # {} =>
    /\ \A j \in TrailingBad : ~(j \in KeptStamps /\ j + 1 \in KeptStamps)
    /\ \A j \in KeptStamps : j <= MinOf(TrailingBad)

\* C19: a bad interval outside the first and the last ten is retained, and
\* the decoded stream holds its sample words and those of every later
\* interval retained, all of them, in file order, whether the interval is
\* longer or shorter than sampling_rate samples.
C19_MiddleKept ==
  z3.phase = "done" /\ MiddleBad # {} =>
    \A j \in MiddleBad :
       /\ j \in KeptStamps /\ j + 1 \in KeptStamps
       /\ IsSubSeq(SamplesFrom(z3file.blocks, j, MaxOf(KeptStamps) - 1), z3.time_series)

\* the passes of the start-matching loop made so far
MatchPasses(z) == z.seconds_diff * z.time_stop + z.s1

\* C22: the start-matching loop of read_3d ends: with the tolerance 5 it
\* makes fewer than 5 retries before each comparison and at most 30 passes
\* in all.  Every pass that stays in the loop counts one more pass, the
\* count never exceeds 30, and at 30 the loop is left.
C22_MatchTerminates ==
  /\ [](z3.phase = "match" =>
          /\ z3.s1 < 5 /\ MatchPasses(z3) <= 30
          /\ MatchPasses(z3) = 30 => ~MatchCond(z3))
  /\ [][z3.phase = "match" /\ z3'.phase = "match" /\ z3' # z3
          => MatchPasses(z3') = MatchPasses(z3) + 1]_vars

\* the timing error after 30 passes
C22_Witness ==
  /\ z3.phase = "failed" /\ z3.err = "ZenGPSError"
  /\ z3.seconds_diff = 5 /\ MatchPasses(z3) = 30

\* C25: after a successful read_3d gps_lst, gps_time, date_time, lat, lon
\* and temperature have one length, and entry i of each is that of the
\* stamp at gps_lst[i].
C25_Parallel ==
  z3.phase = "done" =>
    /\ Len(z3.gps_time) = Len(z3.gps_lst)
    /\ Len(z3.date_time) = Len(z3.gps_lst)
    /\ Len(z3.lat) = Len(z3.gps_lst)
    /\ Len(z3.lon) = Len(z3.gps_lst)
    /\ Len(z3.temperature) = Len(z3.gps_lst)
    /\ \A i \in 1..Len(z3.gps_lst) :
          LET d == DecodeStamp(z3file.raw, z3.gps_lst[i])
          IN  /\ d.kind = "stamp"
              /\ z3.gps_time[i] = d.info.time
              /\ z3.date_time[i] = GetDateTime(z3.gps_week, d.info.time)
              /\ z3.lat[i] = d.info.lat
              /\ z3.lon[i] = d.info.lon
              /\ z3.temperature[i] = d.info.temperature

(***************************************************************************)
(* read_3d on files scheduled late in a minute, so that the expected       *)
(* start is nudged over the end of the minute (lines 280 to 299).          *)
(***************************************************************************)

\* a header scheduled at 10:54:14, 51 seconds after the schedule of Hdr:
\* the expected start is 10:53:58
HdrLate == [Hdr EXCEPT !.schedule_time = Enc(<<"1", "0", ":", "5", "4", ":", "1", "4">>)]
LateSecond == ScheduledSecond + 51

\* files of MaxStamps blocks of Df samples, the stamps one second apart,
\* the first one shift seconds after the scheduled second of the header
NudgeFiles ==
  {[hdr |-> h[1],
    stream |-> [n |-> MaxStamps, first_sec |-> h[2] + shift, lead |-> 0, dev |-> 0,
                dup |-> -1, gap |-> -1, tail |-> 0]] :
     h \in {<<Hdr, ScheduledSecond>>, <<HdrLate, LateSecond>>},
     shift \in (0 - 1)..(SecondsDiff + 2)}

InitNudge ==
  /\ \E nf \in NudgeFiles :
       \E blocks \in {Blocks(nf.stream.n, nf.stream.first_sec, 0, 0, -1, -1)} :
          z3file = [raw |-> RawOf(blocks, 0), hdr |-> nf.hdr,
                    stream |-> nf.stream, blocks |-> blocks]
  /\ z3 = NewZen3D
  /\ CacheIdle /\ TimeIdle /\ ScanIdle /\ AmbiguityIdle
  /\ AlignIdle /\ ScheduleIdle /\ StampIdle

SpecNudge == InitNudge /\ [][NextRead3d]_vars

\* the date-time one second after dt ('YYYY-MM-DD,hh:mm:ss', before 23:59:59)
OneSecondLater(dt) ==
  LET sod == ParseInt(SubSeq(dt, 12, 13)) * 3600 + ParseInt(SubSeq(dt, 15, 16)) * 60
               + ParseInt(SubSeq(dt, 18, 19)) + 1
  IN  SubSeq(dt, 1, 11) \o Pad(sod \div 3600, 2) \o <<58>>
        \o Pad((sod % 3600) \div 60, 2) \o <<58>> \o Pad(sod % 60, 2)

\* a pass of the start-matching loop that nudges the expected start
NudgeStep ==
  z3.phase = "match" /\ z3'.phase = "match" /\ z3'.time_stop = z3.time_stop + 1

\* the first pass after a nudge
AfterNudgeStep ==
  /\ z3.phase = "match" /\ z3.s1 = 0 /\ z3.time_stop > 0
  /\ z3'.phase = "match" /\ z3'.s1 = 1

\* C21: a nudge replaces the expected start by the date-time one second
\* later, carrying into the minutes after second 59, and resets the retry
\* counter and the offset examined to the first stamp of the file; the pass
\* after a nudge compares the first stamp of the file with the nudged
\* start.
C21_Nudge ==
  [][/\ NudgeStep =>
          /\ z3'.start_dt = OneSecondLater(z3.start_dt)
          /\ z3'.s1 = 0
          /\ z3'.gps_lst[1] = StampOffset(z3file.blocks, 0)
     /\ AfterNudgeStep =>
          z3'.start_test = GetDateTime(z3.gps_week, z3file.blocks[1].sec)]_vars

\* ---- check_time_series: what it is to leave of the channels given

\* the seconds channel c of the channels given starts before the latest
StartsBefore(given, c) == MaxOf({StLst(given)[i] : i \in 1..Len(given)}) - StLst(given)[c]

\* C23: check_time_series returns for every combination of start seconds;
\* a channel that starts k seconds before the latest (k = 0 included) has
\* its k * sampling_rate leading samples and the k leading entries of
\* gps_diff, gps_lst, date_time and gps_time dropped, and nothing else
\* before the trimming to the shortest length.
C23_LeadingDropped ==
  al.pc \in {"aligned", "failed"} /\ al.line # 958 =>
    /\ al.pc = "aligned"
    /\ \A c \in 1..Len(al.given) :
          LET k == StartsBefore(al.given, c)
              was == al.given[c]
              now == al.zt_lst[c]
          IN  /\ now.time_series =
                   Slice(was.time_series, k * was.df, k * was.df + al.ts_min)
              /\ now.gps_diff = Slice(was.gps_diff, k, Len(was.gps_diff))
              /\ now.gps_lst = Slice(was.gps_lst, k, Len(was.gps_lst))
              /\ now.date_time = Slice(was.date_time, k, Len(was.date_time))
              /\ now.gps_time = Slice(was.gps_time, k, Len(was.gps_time))

(***************************************************************************)
(* check_time_series on channels of one sampling rate that start within a  *)
(* few seconds of each other around the end of a minute.                   *)
(***************************************************************************)

\* the seconds after 10:53:00 the channels start at: 10:53:58, 10:53:59
\* and 10:54:01
StraddleSeconds == {58, 59, 61}

InitStraddle ==
  /\ CacheIdle /\ TimeIdle /\ ScanIdle /\ AmbiguityIdle /\ Read3dIdle
  /\ ScheduleIdle /\ StampIdle
  /\ \E n \in 2..MaxAlignChn :
       \E secs \in [1..n -> StraddleSeconds], stamps \in [1..n -> {4, 5}] :
         al = [pc |-> "new", err |-> "none", args |-> <<>>, line |-> 0,
               zt_lst |-> [c \in 1..n |-> AlignChannel(c, 256, secs[c], stamps[c])],
               given |-> [c \in 1..n |-> AlignChannel(c, 256, secs[c], stamps[c])],
               ts_array |-> <<>>, ts_min |-> 0, log_lines |-> <<>>]

NextStraddle == SamplingRateOk \/ CheckTimeSeries

SpecStraddle == InitStraddle /\ [][NextStraddle]_vars

\* C28: after check_time_series the first timestamp kept of every channel
\* is the same instant, also for channels that start in different minutes.
C28_SameInstant ==
  al.pc \in {"aligned", "failed"} =>
    /\ al.pc = "aligned"
    /\ \A c \in 1..Len(al.zt_lst) :
          /\ Len(al.zt_lst[c].date_time) > 0
          /\ al.zt_lst[c].date_time[1] = al.zt_lst[1].date_time[1]
          /\ al.zt_lst[c].gps_time[1] = al.zt_lst[1].gps_time[1]

(***************************************************************************)
(* write_cache_file, the decoding of one channel file (lines 1031 to       *)
(* 1039): zt1.read_3d() inside try, and on IOError a second read_3d() with *)
(* zt1._seconds_diff = 59.  A file is readable or not; open() of a file    *)
(* that is not raises IOError.  An exception that the except clause does   *)
(* not take, or one raised inside it, leaves write_cache_file.             *)
(***************************************************************************)

\* the tolerance of the second attempt
RetrySecondsDiff == 59

\* the seconds from the scheduled start to the first stamp of the files
RetryShifts == {-2, 0, 1, 3, 10, 100}

InitRetry ==
  /\ \E shift \in RetryShifts, readable \in BOOLEAN :
       \E blocks \in {Blocks(MaxStamps, ScheduledSecond + shift, 0, 0, -1, -1)} :
          z3file = [raw |-> RawOf(blocks, 0), hdr |-> Hdr,
                    stream |-> [n |-> MaxStamps, first_sec |-> ScheduledSecond + shift,
                                lead |-> 0, dev |-> 0, dup |-> -1, gap |-> -1,
                                tail |-> 0],
                    blocks |-> blocks, readable |-> readable]
  /\ z3 = NewZen3D
  /\ CacheIdle /\ TimeIdle /\ ScanIdle /\ AmbiguityIdle
  /\ AlignIdle /\ ScheduleIdle /\ StampIdle

\* read_3d from open(self.fn, 'rb') to the first start_test
OpenAndRead ==
  /\ z3.phase = "new"
  /\ \E r \in {IF z3file.readable THEN Read3dOpenOf(z3file, z3)
                 ELSE Failed(z3, "IOError")} : z3' = r
  /\ UNCHANGED <<cacheVars, tm, sc, amb, z3file, al, cs, gs>>

\* except IOError: zt1._seconds_diff = 59; zt1.read_3d()
RetryRead3d ==
  /\ z3.phase = "failed" /\ z3.err = "IOError"
  /\ z3.seconds_diff # RetrySecondsDiff
  /\ z3' = [z3 EXCEPT !.phase = "new", !.err = "none",
                       !.seconds_diff = RetrySecondsDiff]
  /\ UNCHANGED <<cacheVars, tm, sc, amb, z3file, al, cs, gs>>

\* the exception is not an IOError, or it was raised by the second attempt
LeaveWriteCacheFile ==
  /\ z3.phase = "failed"
  /\ z3.err # "IOError" \/ z3.seconds_diff = RetrySecondsDiff
  /\ z3' = [z3 EXCEPT !.phase = "raised"]
  /\ UNCHANGED <<cacheVars, tm, sc, amb, z3file, al, cs, gs>>

NextRetry ==
  \/ OpenAndRead \/ MatchStep \/ RaiseZenGPSError \/ StartWalk
  \/ WalkStep \/ Read3dFinish \/ RetryRead3d \/ LeaveWriteCacheFile

SpecRetry == InitRetry /\ [][NextRetry]_vars

\* C24: a GPS timing error of read_3d at the default tolerance does not
\* leave write_cache_file: the file is decoded once more with the
\* tolerance 59.
C24_RetryOnTimingError ==
  ~(z3.phase = "raised" /\ z3.err = "ZenGPSError" /\ z3.seconds_diff = SecondsDiff)

(***************************************************************************)
(* read_cache of a container cut short on disk.                            *)
(***************************************************************************)

\* where the file ends, relative to a frame's trailing length: one word
\* before it, right before it, or after 1 to 3 of its bytes
CutPoints == {-4, 0, 1, 2, 3}

\* the file loses everything from the cut on; fault records the frame, the
\* cut and the length of the file before and after
TruncateFile ==
  /\ pc = "written"
  /\ fault = NoFault
  /\ \E f \in 1..Len(layout), b \in CutPoints :
        \E at \in {TrailerAt(f) + b} :
           /\ file' = SubSeq(file, 1, at)
           /\ fault' = [frame |-> f, byte |-> b, was |-> Len(file), now |-> at]
  /\ UNCHANGED <<pc, zts, aligned, zc, layout, err, zenVars>>

NextTruncated == WriteCacheFile \/ TruncateFile \/ ReadCache

SpecTruncated == InitIntegrity /\ [][NextTruncated]_vars

\* C26: read_cache of a file that ends before or inside the trailing length
\* of a frame does not return normally.
C26_TruncatedFails ==
  (pc = "read" /\ fault # NoFault) => err # "none"

(***************************************************************************)
(* write_cache_file and read_cache called again on the same instance.      *)
(***************************************************************************)

\* the body of "for fn in fn_lst" once read_cache has made the values of
\* meta_data lists: a key assigned to gets its text, and list += text
\* extends the list by the characters of the text
RECURSIVE FillMetaAgain(_, _)
FillMetaAgain(md, zt_lst) ==
  IF zt_lst = <<>> THEN md
  ELSE LET zt1 == Head(zt_lst)
           chars(text) == [i \in 1..Len(text) |-> <<text[i]>>]
           more(text) == chars(<<COMMA>> \o text)
       IN  FillMetaAgain(
             [md EXCEPT
                ![K_DATA_DATE0] = <<COMMA>> \o zt1.date0,
                ![K_DATA_TIME0] = <<COMMA>> \o zt1.time0,
                ![K_TS_ADFREQ] = <<COMMA>> \o Digits(zt1.df),
                ![K_CH_FACTOR] = @ \o more(ChFactor),
                ![K_CH_GAIN] = @ \o more(ChGain),
                ![K_CH_CMP] = @ \o more(Upper(zt1.ch_cmp)),
                ![K_CH_LENGTH] = @ \o more(zt1.ch_length),
                ![K_CH_EXTGAIN] = @ \o more(Enc(<<"1">>)),
                ![K_CH_NOTCH] = @ \o more(Enc(<<"N", "O", "N", "E">>)),
                ![K_CH_HIGHPASS] = @ \o more(Enc(<<"N", "O", "N", "E">>)),
                ![K_CH_LOWPASS] = @ \o more(ChLowpass(zt1.df)),
                ![K_CH_ADCARDSN] = @ \o more(zt1.ch_adcard_sn),
                ![K_CH_NUMBER] = @ \o more(zt1.ch_number),
                ![K_RX_STN] = @ \o more(zt1.rx_stn)],
             Tail(zt_lst))

\* a second write_cache_file of the same channels.  After a write the values
\* of meta_data are text and the call appends to them; after read_cache they
\* are lists, and key+self.meta_data[key] of meta_str raises TypeError once
\* the file has been opened for writing and the navigation frame written
WriteCacheFileAgain ==
  /\ pc \in {"written", "read"}
  /\ IF pc = "written"
     THEN \E w \in {WriteCacheOf(zc, zts, aligned)} :
             /\ zc' = w.zc
             /\ file' = w.file
             /\ layout' = w.layout
             /\ err' = "none"
     ELSE /\ zc' = [zc EXCEPT
                      !.meta_data = [FillMetaAgain(zc.meta_data, zts)
                                       EXCEPT ![K_TS_NPNT] = <<COMMA>> \o Digits(Len(aligned))],
                      !.ts = aligned]
          /\ file' = NavFrame
          /\ layout' = LayoutOf(<<NavFrame>>)
          /\ err' = "TypeError"
  /\ pc' = "rewritten"
  /\ UNCHANGED <<zts, aligned, fault, zenVars>>

ReadCacheAgain ==
  /\ pc = "rewritten"
  /\ \E r \in {ReadCacheOf(file, zc @@ [err |-> "none"])} :
        /\ zc' = [k \in DOMAIN zc |-> r[k]]
        /\ err' = r.err
  /\ pc' = "reread"
  /\ UNCHANGED <<zts, aligned, file, layout, fault, zenVars>>

NextReuse == WriteCacheFile \/ ReadCache \/ WriteCacheFileAgain \/ ReadCacheAgain

SpecReuse == InitIntegrity /\ [][NextReuse]_vars

PerChannelKeys ==
  {K_CH_CMP, K_CH_NUMBER, K_CH_FACTOR, K_CH_GAIN, K_CH_LENGTH, K_CH_EXTGAIN,
   K_CH_NOTCH, K_CH_HIGHPASS, K_CH_LOWPASS, K_CH_ADCARDSN, K_RX_STN}

\* the metadata text of the file, as read_cache splits it
WrittenMeta ==
  ParseMeta(Slice(file, layout[2].at + CacheStampLen,
                  layout[2].at + CacheStampLen + layout[2].payload))

\* C27: after every write_cache_file the metadata frame of the file has one
\* entry per merged channel in each per-channel list, and every read_cache
\* recovers that channel count.
C27_OneEntryPerFile ==
  /\ pc \in {"written", "rewritten"} =>
        /\ err = "none"
        /\ Len(layout) >= 2
        /\ \A k \in PerChannelKeys : Len(WrittenMeta[k]) = Len(zts)
  /\ pc \in {"read", "reread"} =>
        /\ err = "none"
        /\ Len(zc.meta_data[K_CH_CMP]) = Len(zts)

(***************************************************************************)
(* read_3d on files one of whose sample words is 0.                        *)
(***************************************************************************)

\* the files.  MaxStamps blocks of Df samples from the scheduled second on,
\* one second apart; the first sample word of the block zero (from 0) is 0,
\* no word is when zero is -1; ending with the last block or with the first
\* 20 bytes of one more stamp.  Without zero word, from one second and from
\* 100 seconds after the scheduled second on.
ZeroStreams ==
  {[n |-> MaxStamps, first_sec |-> ScheduledSecond, zero |-> zero, tail |-> tail] :
     zero \in {-1, 0, 1, MaxStamps \div 2, MaxStamps - 3, MaxStamps - 2},
     tail \in {0, 20}}
  \cup
  {[n |-> MaxStamps, first_sec |-> ScheduledSecond + shift, zero |-> -1, tail |-> 0] :
     shift \in {1, 100}}

InitZero ==
  /\ \E st \in ZeroStreams :
       \E blocks \in {[k \in 1..st.n |->
                         [sec |-> st.first_sec + k - 1,
                          nsamp |-> Hdr.df,
                          first |-> IF k - 1 = st.zero THEN 0 ELSE 1000 * (k - 1) + 1]]} :
          z3file = [raw |-> RawOf(blocks, st.tail), hdr |-> Hdr,
                    stream |-> st, blocks |-> blocks]
  /\ z3 = NewZen3D
  /\ CacheIdle /\ TimeIdle /\ ScanIdle /\ AmbiguityIdle
  /\ AlignIdle /\ ScheduleIdle /\ StampIdle

SpecZero == InitZero /\ [][NextRead3d]_vars

\* the sample words of the file between the retained stamps i and i + 1
WordsBetween(i) ==
  LET w == Words(Slice(z3file.raw, z3.gps_lst[i] + StampLen, z3.gps_lst[i + 1]))
  IN  [p \in 1..Len(w) |-> F32Round(w[p])]

\* every retained interval has the nominal span
NominalSpans ==
  \A i \in 1..(Len(z3.gps_lst) - 1) :
     z3.gps_lst[i + 1] - z3.gps_lst[i] = StampLen + 4 * z3.df

\* C29: the decoded samples are the sample words between consecutive
\* retained stamps, in file order, whatever their values; with nominal
\* spans there are sampling_rate of them per retained interval.
C29_EverySample ==
  z3.phase = "done" =>
    /\ z3.time_series = Join([i \in 1..(Len(z3.gps_lst) - 1) |-> WordsBetween(i)])
    /\ NominalSpans => Len(z3.time_series) = z3.df * (Len(z3.gps_lst) - 1)

(***************************************************************************)
(* read_3d on short files with a bad interval away from both ends.         *)
(***************************************************************************)

\* the files.  MaxStamps blocks from the scheduled second on, one second
\* apart, the blocks bad six samples short or long: none, one near the
\* start, one or two in the middle; ending with the last block or with the
\* first 20 bytes of one more stamp.  Without bad block, from one second and
\* from 100 seconds after the scheduled second on.
ShortStreams ==
  {[n |-> MaxStamps, first_sec |-> ScheduledSecond, bad |-> bad, dev |-> dev,
    tail |-> tail] :
     bad \in {{}, {2}, {MaxStamps - 5}, {MaxStamps - 8, MaxStamps - 5}},
     dev \in {-6, 6}, tail \in {0, 20}}
  \cup
  {[n |-> MaxStamps, first_sec |-> ScheduledSecond + shift, bad |-> {}, dev |-> 6,
    tail |-> 0] : shift \in {1, 100}}

InitShort ==
  /\ \E st \in ShortStreams :
       \E blocks \in {DriftBlocks(st.n, st.first_sec, st.bad, st.dev)} :
          z3file = [raw |-> RawOf(blocks, st.tail), hdr |-> Hdr,
                    stream |-> st, blocks |-> blocks]
  /\ z3 = NewZen3D
  /\ CacheIdle /\ TimeIdle /\ ScanIdle /\ AmbiguityIdle
  /\ AlignIdle /\ ScheduleIdle /\ StampIdle

SpecShort == InitShort /\ [][NextRead3d]_vars

\* C30: the trimming bounds of read_3d satisfy 0 <= bmin <= bmax <= number
\* of stamps, and one bad interval alone, with good intervals beside it,
\* leaves a retained range that is not empty.
C30_TrimBounds ==
  z3.phase \in {"done", "failed"} /\ DOMAIN z3.found # {} =>
    /\ 0 <= z3.found.bmin
    /\ z3.found.bmin <= z3.found.bmax
    /\ z3.found.bmax <= z3.found.num_samples
    /\ (Cardinality(z3.found.bad_interval) = 1 /\ z3.found.num_samples > 1
          => z3.found.bmin < z3.found.bmax)
====
